---- MODULE Spec2Model ----
(***************************************************************************)
(* The tree-walking Lox implementation: the static Resolver, the           *)
(* Environment chain, the value model (functions, classes, instances) and  *)
(* the Interpreter, as driven by Lox::run on one script.                   *)
(*                                                                         *)
(* Heap objects that the Rust code shares through Arc (environments,       *)
(* class definitions, instances) live in tables indexed by 1..Len; a       *)
(* reference is the index, and 0 is Option::None.  Numbers (f64) are       *)
(* modelled by integers, strings by sequences of one-character strings.    *)
(***************************************************************************)
EXTENDS Integers, Sequences, FiniteSets, TLC

VARIABLES
    pc,        \* where Lox::run stands: "start", "resolve", "interpret", "done", "panic",
               \* "blocked"
    prog,      \* the script being run: an index into Programs (0 before run_file)
    locals,    \* Interpreter::locals, the side table: expression key -> distance
    heap,      \* the interpreter's objects: envs, classes, instances, environment, out
    idx,       \* interpret's loop position: the next top-level statement
    failure,   \* the error interpret stopped at and reported (None when nothing)
    rpanic,    \* the message of the resolver's panic ("" when it returned)
    lines,     \* run_prompt: the lines read so far, the one being run last (<<>> in run_file)
    build,     \* the file the run takes ClassInstance from: "value/class.rs" or "value.rs"
    std,       \* what the standard library does where its documentation leaves it open
    resolver,  \* the Resolver: scopes, current_function, current_class, panic
    environments,  \* environment.rs on its own: a table of EnvironmentStorage
    returned,      \* environment.rs on its own: what the last call returned
    vm         \* bytecode_lox's VM: chunk, ip, stack, and what run printed and returned

\* The variables of Lox::run, of environment.rs on its own, and all of them.
run_vars == <<pc, prog, locals, heap, idx, failure, rpanic, lines, build, std>>
environment_vars == <<environments, returned>>
vars == <<pc, prog, locals, heap, idx, failure, rpanic, lines, build, std, resolver,
          environments, returned, vm>>

(***************************************************************************)
(* Option<T>                                                               *)
(***************************************************************************)
None == <<>>
Some(x) == <<x>>
is_some(o) == Len(o) = 1
unwrap(o) == o[1]

(***************************************************************************)
(* token.rs, ast: tokens and syntax trees                                  *)
(***************************************************************************)
\* A token: its lexeme and its scanner-position identity.
Token(lexeme, id) == [lexeme |-> lexeme, id |-> id]

Expr_Literal(value) == [k |-> "Literal", value |-> value]
Expr_Variable(name) == [k |-> "Variable", name |-> name]
Expr_Assign(name, value) == [k |-> "Assign", name |-> name, value |-> value]
Expr_Binary(left, operator, right) ==
    [k |-> "Binary", left |-> left, operator |-> operator, right |-> right]
Expr_Logical(left, operator, right) ==
    [k |-> "Logical", left |-> left, operator |-> operator, right |-> right]
Expr_Unary(operator, right) == [k |-> "Unary", operator |-> operator, right |-> right]
Expr_Call(callee, arguments) == [k |-> "Call", callee |-> callee, arguments |-> arguments]
Expr_Get(object, name) == [k |-> "Get", object |-> object, name |-> name]
Expr_Set(object, name, value) ==
    [k |-> "Set", object |-> object, name |-> name, value |-> value]
Expr_Grouping(expression) == [k |-> "Grouping", expression |-> expression]
Expr_This(keyword) == [k |-> "This", keyword |-> keyword]
Expr_Super(keyword, method) == [k |-> "Super", keyword |-> keyword, method |-> method]

FunctionStmt(name, params, body) == [name |-> name, params |-> params, body |-> body]

Stmt_Expression(expression) == [k |-> "Expression", expression |-> expression]
Stmt_Print(expression) == [k |-> "Print", expression |-> expression]
Stmt_Var(name, initializer) == [k |-> "Var", name |-> name, initializer |-> initializer]
Stmt_Block(statements) == [k |-> "Block", statements |-> statements]
Stmt_If(condition, then_branch, else_branch) ==
    [k |-> "If", condition |-> condition, then_branch |-> then_branch,
     else_branch |-> else_branch]
Stmt_While(condition, body) == [k |-> "While", condition |-> condition, body |-> body]
Stmt_Function(fun) == [k |-> "Function", fun |-> fun]
Stmt_Return(value) == [k |-> "Return", value |-> value]
Stmt_Class(name, superclass, methods) ==
    [k |-> "Class", name |-> name, superclass |-> superclass, methods |-> methods]

\* The key of an expression in the side table (HashMap<Expr, usize>): the
\* identity of the token the expression is built from.
ExprKey(expr) == IF expr.k \in {"This", "Super"} THEN expr.keyword.id ELSE expr.name.id

(***************************************************************************)
(* value: RuntimeValue                                                     *)
(***************************************************************************)
Nil == [t |-> "Nil"]
Bool(b) == [t |-> "Bool", v |-> b]
Float(n) == [t |-> "Float", v |-> n]
Str(s) == [t |-> "Str", v |-> s]
BuiltInFunction(name, args) == [t |-> "BuiltInFunction", name |-> name, args |-> args]
UserFunction(fun, closure) == [t |-> "UserFunction", declaration |-> fun, closure |-> closure]
Class(c) == [t |-> "Class", class |-> c]
Instance(i) == [t |-> "Instance", instance |-> i]

is_truthy(value) ==
    CASE value.t = "Bool" -> value.v
      [] value.t = "Nil" -> FALSE
      [] OTHER -> TRUE

(***************************************************************************)
(* environment.rs: the table envs holds one EnvironmentStorage per index   *)
(***************************************************************************)
\* A map insert: HashMap::insert overwrites.
insert(map, key, value) == (key :> value) @@ map

Environment_new(envs) == Append(envs, [values |-> <<>>, enclosing |-> 0])

Environment_child(envs, env) == Append(envs, [values |-> <<>>, enclosing |-> env])

Environment_define(envs, env, name, value) ==
    [envs EXCEPT ![env].values = insert(@, name, value)]

\* assign that makes the binding in the receiver when no frame has the name.
Environment_assign_or_define(envs, env, name, value) ==
    [envs EXCEPT ![env].values = insert(@, name, value)]

RECURSIVE Environment_assign(_, _, _, _)
Environment_assign(envs, env, name, value) ==
    IF name \in DOMAIN envs[env].values
    THEN [envs EXCEPT ![env].values = insert(@, name, value)]
    ELSE IF envs[env].enclosing # 0
         THEN Environment_assign(envs, envs[env].enclosing, name, value)
         ELSE envs

\* What assign returns: HashMap::insert's Some(old value) from the frame it
\* wrote to, None when no frame of the chain has the name.
RECURSIVE Environment_assign_returned(_, _, _)
Environment_assign_returned(envs, env, name) ==
    IF name \in DOMAIN envs[env].values
    THEN Some(envs[env].values[name])
    ELSE IF envs[env].enclosing # 0
         THEN Environment_assign_returned(envs, envs[env].enclosing, name)
         ELSE None

RECURSIVE Environment_get(_, _, _)
Environment_get(envs, env, name) ==
    IF name \in DOMAIN envs[env].values
    THEN Some(envs[env].values[name])
    ELSE IF envs[env].enclosing # 0
         THEN Environment_get(envs, envs[env].enclosing, name)
         ELSE None

\* The loop of ancestor: `steps` more iterations on the Option `env` (0 is None).
\* Taking None panics, reported as -1.
RECURSIVE ancestor_loop(_, _, _)
ancestor_loop(envs, env, steps) ==
    IF steps = 0 THEN env
    ELSE IF env <= 0 THEN -1
         ELSE ancestor_loop(envs, envs[env].enclosing, steps - 1)

\* The environment `distance` parents up, or -1 where the code panics (a failed
\* assertion or an unwrap of None).
Environment_ancestor(envs, env, distance) ==
    IF distance <= 0 \/ envs[env].enclosing = 0 THEN -1
    ELSE LET e == ancestor_loop(envs, envs[env].enclosing, distance - 1)
         IN IF e <= 0 THEN -1 ELSE e

\* The frame get_at and assign_at work on.
frame_at(envs, env, distance) ==
    IF distance > 0 THEN Environment_ancestor(envs, env, distance) ELSE env

\* get_at that goes on to the enclosing frames when the frame at the distance
\* has no such name.
Environment_get_at_or_above(envs, env, distance, name) ==
    LET f == frame_at(envs, env, distance)
    IN IF f = -1 THEN [panic |-> TRUE, value |-> None]
       ELSE [panic |-> FALSE, value |-> Environment_get(envs, f, name)]

Environment_get_at(envs, env, distance, name) ==
    LET f == frame_at(envs, env, distance)
    IN IF f = -1 THEN [panic |-> TRUE, value |-> None]
       ELSE IF name \in DOMAIN envs[f].values
            THEN [panic |-> FALSE, value |-> Some(envs[f].values[name])]
            ELSE [panic |-> FALSE, value |-> None]

\* assign_at that writes into the current frame whatever the distance.
Environment_assign_at_current(envs, env, distance, name, value) ==
    [panic |-> FALSE, envs |-> [envs EXCEPT ![env].values = insert(@, name, value)]]

Environment_assign_at(envs, env, distance, name, value) ==
    LET f == frame_at(envs, env, distance)
    IN IF f = -1 THEN [panic |-> TRUE, envs |-> envs]
       ELSE [panic |-> FALSE, envs |-> [envs EXCEPT ![f].values = insert(@, name, value)]]

(***************************************************************************)
(* resolver.rs: the Resolver.  Its state is the record rs: the scope       *)
(* stack, the two context enums, the side table it fills through           *)
(* Interpreter::resolve, and the message of the todo!() it panicked with.  *)
(***************************************************************************)
Resolver_new ==
    [scopes |-> <<>>, current_function |-> "None", current_class |-> "None",
     locals |-> <<>>, panic |-> ""]

\* todo!(msg): the first panic ends the resolver; nothing after it runs.
todo(rs, msg) == IF rs.panic # "" THEN rs ELSE [rs EXCEPT !.panic = msg]

Interpreter_resolve(rs, expr, depth) ==
    [rs EXCEPT !.locals = insert(@, ExprKey(expr), depth)]

begin_scope(rs) ==
    IF rs.panic # "" THEN rs ELSE [rs EXCEPT !.scopes = Append(@, <<>>)]

end_scope(rs) ==
    IF rs.panic # "" THEN rs ELSE [rs EXCEPT !.scopes = SubSeq(@, 1, Len(@) - 1)]

\* scopes.last_mut().unwrap().insert(name, true), used for "this" and "super"
scope_insert(rs, lexeme) ==
    IF rs.panic # "" THEN rs
    ELSE [rs EXCEPT !.scopes[Len(rs.scopes)] = insert(@, lexeme, TRUE)]

\* declare without the check of the scope's map.
declare_unchecked(rs, name) ==
    IF rs.panic # "" \/ Len(rs.scopes) = 0 THEN rs
    ELSE [rs EXCEPT !.scopes[Len(rs.scopes)] = insert(@, name.lexeme, FALSE)]

declare(rs, name) ==
    IF rs.panic # "" \/ Len(rs.scopes) = 0 THEN rs
    ELSE IF name.lexeme \in DOMAIN rs.scopes[Len(rs.scopes)]
         THEN todo(rs, "Already variable with this name in this scope.")
         ELSE [rs EXCEPT !.scopes[Len(rs.scopes)] = insert(@, name.lexeme, FALSE)]

define(rs, name) ==
    IF rs.panic # "" \/ Len(rs.scopes) = 0 THEN rs
    ELSE [rs EXCEPT !.scopes[Len(rs.scopes)] = insert(@, name.lexeme, TRUE)]

\* The scope resolve_local stops at: the first one, in the order of
\* self.scopes.iter().enumerate(), that contains the name (0 when none does).
\* Indices are 1-based here, so the code's i is this index minus one.
found_scope(scopes, lexeme) ==
    LET holders == {i \in 1..Len(scopes) : lexeme \in DOMAIN scopes[i]}
    IN IF holders = {} THEN 0
       ELSE CHOOSE i \in holders : \A j \in holders : i <= j

resolve_local(rs, expr, name) ==
    IF rs.panic # "" \/ found_scope(rs.scopes, name.lexeme) = 0 THEN rs
    ELSE Interpreter_resolve(
             rs, expr, Len(rs.scopes) - 1 - (found_scope(rs.scopes, name.lexeme) - 1))

\* The check of a read that takes a definition in an outer scope for one of
\* the innermost scope.
defined_in_no_scope(scopes, lexeme) ==
    /\ Len(scopes) > 0
    /\ lexeme \in DOMAIN scopes[Len(scopes)]
    /\ \A i \in 1..Len(scopes) : lexeme \in DOMAIN scopes[i] => scopes[i][lexeme] = FALSE

\* if let Some(false) = self.scopes.last().and_then(|it| it.get(&name.lexeme))
declared_not_defined(scopes, lexeme) ==
    /\ Len(scopes) > 0
    /\ lexeme \in DOMAIN scopes[Len(scopes)]
    /\ scopes[Len(scopes)][lexeme] = FALSE

\* self.current_function = kind, and back
set_current_function(rs, kind) ==
    IF rs.panic # "" THEN rs ELSE [rs EXCEPT !.current_function = kind]

\* self.current_class = kind, and back
set_current_class(rs, kind) ==
    IF rs.panic # "" THEN rs ELSE [rs EXCEPT !.current_class = kind]

\* for param in &fun.params { self.declare(param); self.define(param); }
RECURSIVE declare_params(_, _)
declare_params(rs, params) ==
    IF Len(params) = 0 THEN rs
    ELSE declare_params(define(declare(rs, Head(params)), Head(params)), Tail(params))

\* The kind a class's method is resolved with.
method_kind(method) ==
    IF method.name.lexeme = "init" THEN "Initializer" ELSE "Method"

\* Whether a return statement is refused, and with which message ("" when not).
return_refused(current_function) ==
    IF current_function = "None" THEN "Can't return from top-level code."
    ELSE IF current_function = "Initializer"
         THEN "Can't return a value from an initializer."
         ELSE ""

\* if name.lexeme == superclass.lexeme { todo!(..) }
check_inherits_itself(rs, name, superclass) ==
    IF name.lexeme = superclass.lexeme
    THEN todo(rs, "A class can't inherit from itself.")
    ELSE rs

RECURSIVE resolve(_, _), resolve_stmt(_, _), resolve_expr(_, _),
          resolve_exprs(_, _), resolve_function(_, _, _), resolve_methods(_, _),
          resolve_superclass(_, _), resolve_class(_, _)

resolve(rs, statements) ==
    IF rs.panic # "" \/ Len(statements) = 0 THEN rs
    ELSE resolve(resolve_stmt(rs, Head(statements)), Tail(statements))

resolve_exprs(rs, exprs) ==
    IF rs.panic # "" \/ Len(exprs) = 0 THEN rs
    ELSE resolve_exprs(resolve_expr(rs, Head(exprs)), Tail(exprs))

resolve_function(rs, fun, kind) ==
    set_current_function(
        end_scope(resolve(declare_params(begin_scope(set_current_function(rs, kind)),
                                         fun.params),
                          fun.body)),
        rs.current_function)

resolve_methods(rs, methods) ==
    IF rs.panic # "" \/ Len(methods) = 0 THEN rs
    ELSE resolve_methods(
             resolve_function(rs, Head(methods), method_kind(Head(methods))),
             Tail(methods))

\* Stmt::Class, the part under `if let Some(superclass) = superclass`
resolve_superclass(rs, statement) ==
    scope_insert(
        begin_scope(
            resolve_expr(
                check_inherits_itself(set_current_class(rs, "Subclass"), statement.name,
                                      unwrap(statement.superclass)),
                Expr_Variable(unwrap(statement.superclass)))),
        "super")

\* Stmt::Class that leaves the scope of `super` where it is.
end_super_scope_skipped(rs, statement) == rs

\* if superclass.is_some() { self.end_scope(); }
end_super_scope(rs, statement) ==
    IF is_some(statement.superclass) THEN end_scope(rs) ELSE rs

\* Stmt::Class, up to the scope holding "this"
class_scopes(rs, statement) ==
    scope_insert(
        begin_scope(IF is_some(statement.superclass)
                    THEN resolve_superclass(rs, statement)
                    ELSE rs),
        "this")

\* Stmt::Class without `self.current_class = enclosing_class`
resolve_class_not_restoring(rs, statement) ==
    end_super_scope(
        end_scope(
            resolve_methods(
                class_scopes(
                    define(declare(set_current_class(rs, "Class"), statement.name),
                           statement.name),
                    statement),
                statement.methods)),
        statement)

resolve_class(rs, statement) ==
    set_current_class(
        end_super_scope(
            end_scope(
                resolve_methods(
                    class_scopes(
                        define(declare(set_current_class(rs, "Class"), statement.name),
                               statement.name),
                        statement),
                    statement.methods)),
            statement),
        rs.current_class)

resolve_stmt(rs, statement) ==
    IF rs.panic # "" THEN rs
    ELSE CASE statement.k = "Block" ->
                end_scope(resolve(begin_scope(rs), statement.statements))
           [] statement.k = "Var" ->
                define(IF is_some(statement.initializer)
                       THEN resolve_expr(declare(rs, statement.name),
                                         unwrap(statement.initializer))
                       ELSE declare(rs, statement.name),
                       statement.name)
           [] statement.k = "Function" ->
                resolve_function(
                    define(declare(rs, statement.fun.name), statement.fun.name),
                    statement.fun, "Function")
           [] statement.k = "Expression" -> resolve_expr(rs, statement.expression)
           [] statement.k = "If" ->
                IF is_some(statement.else_branch)
                THEN resolve_stmt(resolve_stmt(resolve_expr(rs, statement.condition),
                                               statement.then_branch),
                                  unwrap(statement.else_branch))
                ELSE resolve_stmt(resolve_expr(rs, statement.condition),
                                  statement.then_branch)
           [] statement.k = "Print" -> resolve_expr(rs, statement.expression)
           [] statement.k = "Return" ->
                IF return_refused(rs.current_function) # ""
                THEN todo(rs, return_refused(rs.current_function))
                ELSE IF is_some(statement.value)
                     THEN resolve_expr(rs, unwrap(statement.value))
                     ELSE rs
           [] statement.k = "While" ->
                resolve_stmt(resolve_expr(rs, statement.condition), statement.body)
           [] statement.k = "Class" -> resolve_class(rs, statement)

resolve_expr(rs, expression) ==
    IF rs.panic # "" THEN rs
    ELSE CASE expression.k = "Variable" ->
                IF declared_not_defined(rs.scopes, expression.name.lexeme)
                THEN todo(rs, "Can't read local variable in its own initializer.")
                ELSE resolve_local(rs, expression, expression.name)
           [] expression.k = "Assign" ->
                resolve_local(resolve_expr(rs, expression.value), expression,
                              expression.name)
           [] expression.k = "Call" ->
                resolve_exprs(resolve_expr(rs, expression.callee), expression.arguments)
           [] expression.k = "Get" -> resolve_expr(rs, expression.object)
           [] expression.k = "Set" ->
                resolve_expr(resolve_expr(rs, expression.value), expression.object)
           [] expression.k = "Grouping" -> resolve_expr(rs, expression.expression)
           [] expression.k = "Literal" -> rs
           [] expression.k = "Logical" ->
                resolve_expr(resolve_expr(rs, expression.left), expression.right)
           [] expression.k = "Binary" ->
                resolve_expr(resolve_expr(rs, expression.left), expression.right)
           [] expression.k = "Unary" -> resolve_expr(rs, expression.right)
           [] expression.k = "This" ->
                IF rs.current_class = "None"
                THEN todo(rs, "Can't use 'this' outside of a class.")
                ELSE resolve_local(rs, expression, expression.keyword)
           [] expression.k = "Super" ->
                IF rs.current_class = "None"
                THEN todo(rs, "Can't use 'super' outside of a class.")
                ELSE IF rs.current_class # "Subclass"
                     THEN todo(rs, "Can't use 'super' with no superclass.")
                     ELSE resolve_local(rs, expression, expression.keyword)

(***************************************************************************)
(* value/class.rs and value/function.rs                                    *)
(*                                                                         *)
(* The interpreter's objects are the record st:                            *)
(*   envs         the environments (values, enclosing)                     *)
(*   classes      the class definitions (name, superclass, methods)        *)
(*   instances    the class instances (class, fields)                      *)
(*   globals      Interpreter::globals                                     *)
(*   environment  Interpreter::environment, the current-environment cursor *)
(*   out          the lines written by print                               *)
(* Every operation returns the objects as it leaves them (st) with         *)
(*   k = "Ok"    and the value v,                                          *)
(*   k = "Err"   and the InterpreterError e, or                            *)
(*   k = "Panic" when the process aborted,                                 *)
(*   k = "Blocked" when the thread waits for a lock for ever.              *)
(***************************************************************************)
Ok(st, v) == [st |-> st, k |-> "Ok", v |-> v]
Err(st, e) == [st |-> st, k |-> "Err", e |-> e]
Panic(st) == [st |-> st, k |-> "Panic"]
Blocked(st) == [st |-> st, k |-> "Blocked"]

\* std: Mutex::lock in a thread that holds the lock panics or never returns
\* (relock); HashMap's == visits the entries in an order of its own, which
\* matters when one entry is unequal and another needs a lock that is held
\* (first).
Std(relock, first) == [relock |-> relock, first |-> first]

InterpreterError(kind, value) == [kind |-> kind, value |-> value]

ClassDefinition_new(classes, name, superclass, methods) ==
    Append(classes, [name |-> name, superclass |-> superclass, methods |-> methods])

\* find_method that looks into the class's own table only.
ClassDefinition_find_own_method(classes, class, name) ==
    IF name \in DOMAIN classes[class].methods
    THEN Some(classes[class].methods[name])
    ELSE None

RECURSIVE ClassDefinition_find_method(_, _, _)
ClassDefinition_find_method(classes, class, name) ==
    IF name \in DOMAIN classes[class].methods
    THEN Some(classes[class].methods[name])
    ELSE IF classes[class].superclass # 0
         THEN ClassDefinition_find_method(classes, classes[class].superclass, name)
         ELSE None

ClassInstance_new(instances, class) ==
    Append(instances, [class |-> class, fields |-> <<>>])

ClassInstance_set(st, instance, name, value) ==
    [st EXCEPT !.instances[instance].fields = insert(@, name.lexeme, value)]

\* bind that defines `this` in the closure itself and makes no frame.
UserFunction_bind_in_closure(st, function, instance) ==
    [st |-> [st EXCEPT !.envs = Environment_define(@, function.closure, "this",
                                                   Instance(instance))],
     function |-> function]

\* bind: the objects with the new frame, and the bound function.
UserFunction_bind(st, function, instance) ==
    LET envs1 == Environment_child(st.envs, function.closure)
        environment == Len(envs1)
        envs2 == Environment_define(envs1, environment, "this", Instance(instance))
    IN [st |-> [st EXCEPT !.envs = envs2],
        function |-> UserFunction(function.declaration, environment)]

\* get that asks the class for a method before it looks at the fields.
ClassInstance_get_method_first(st, instance, name) ==
    LET method == ClassDefinition_find_method(
                      st.classes, st.instances[instance].class, name.lexeme)
    IN IF is_some(method)
       THEN LET b == UserFunction_bind(st, unwrap(method), instance)
            IN [st |-> b.st, value |-> Some(b.function)]
       ELSE IF name.lexeme \in DOMAIN st.instances[instance].fields
            THEN [st |-> st, value |-> Some(st.instances[instance].fields[name.lexeme])]
            ELSE [st |-> st, value |-> None]

\* get: the objects (a method is bound on the way) and the Option found.
ClassInstance_get(st, instance, name) ==
    LET fields == st.instances[instance].fields
    IN IF name.lexeme \in DOMAIN fields
       THEN [st |-> st, value |-> Some(fields[name.lexeme])]
       ELSE LET method == ClassDefinition_find_method(
                              st.classes, st.instances[instance].class, name.lexeme)
            IN IF is_some(method)
               THEN LET b == UserFunction_bind(st, unwrap(method), instance)
                    IN [st |-> b.st, value |-> Some(b.function)]
               ELSE [st |-> st, value |-> None]

UserFunction_arity(function) == Len(function.declaration.params)

BuiltInFunction_arity(function) == Len(function.args)

ClassDefinition_arity(classes, class) ==
    LET initializer == ClassDefinition_find_method(classes, class, "init")
    IN IF is_some(initializer) THEN UserFunction_arity(unwrap(initializer)) ELSE 0

as_callable(value) == value.t \in {"BuiltInFunction", "UserFunction", "Class"}

arity(st, callable) ==
    CASE callable.t = "UserFunction" -> UserFunction_arity(callable)
      [] callable.t = "BuiltInFunction" -> BuiltInFunction_arity(callable)
      [] callable.t = "Class" -> ClassDefinition_arity(st.classes, callable.class)

\* for (arg, arg_value) in params.iter().zip(&args) { environment.define(..) }
RECURSIVE define_params(_, _, _, _)
define_params(envs, environment, params, args) ==
    IF Len(params) = 0 \/ Len(args) = 0 THEN envs
    ELSE define_params(
             Environment_define(envs, environment, Head(params).lexeme, Head(args)),
             environment, Tail(params), Tail(args))

\* RuntimeValue's Display, as far as the objects determine it.
to_string(st, value) ==
    CASE value.t = "Bool" -> [t |-> "Bool", text |-> IF value.v THEN "true" ELSE "false"]
      [] value.t = "Float" -> [t |-> "Float", text |-> value.v]
      [] value.t = "Str" -> [t |-> "Str", text |-> value.v]
      [] value.t = "Nil" -> [t |-> "Nil", text |-> "nil"]
      [] value.t = "BuiltInFunction" -> [t |-> "fun", text |-> value.name]
      [] value.t = "UserFunction" ->
            [t |-> "fun", text |-> value.declaration.name.lexeme]
      [] value.t = "Class" -> [t |-> "class", text |-> st.classes[value.class].name.lexeme]
      [] value.t = "Instance" ->
            [t |-> "instance",
             text |-> st.classes[st.instances[value.instance].class].name.lexeme]

\* Token's ==: the tokens of one place in the source, and no others.
Token_eq(a, b) == a = b

\* What a comparison gives, when it returns.
outcome_of(equal) == IF equal THEN "true" ELSE "false"

\* HashMap's ==, from what the comparisons of its entries give: true when
\* every entry is equal; otherwise whatever the entry visited first that is
\* not equal gives.
all_entries(outcomes) ==
    CASE outcomes \subseteq {"true"} -> "true"
      [] "again" \notin outcomes -> "false"
      [] "false" \notin outcomes -> "again"
      [] OTHER -> IF std.first = "unequal" THEN "false" ELSE "again"

\* The derived PartialEq of RuntimeValue, which compares the variants first,
\* over the PartialEq of each variant: "true", "false", or "again" when the
\* fields of an instance are locked while the thread holds their lock (held:
\* the instances whose fields are locked).  A function and a class are
\* compared by the name token of their declaration.
RECURSIVE eq(_, _, _, _)
eq(st, a, b, held) ==
    IF a.t # b.t THEN "false"
    ELSE CASE a.t = "Nil" -> "true"
           [] a.t \in {"Bool", "Float", "Str"} -> outcome_of(a.v = b.v)
           [] a.t = "BuiltInFunction" -> outcome_of(a.name = b.name)
           [] a.t = "UserFunction" -> outcome_of(Token_eq(a.declaration.name, b.declaration.name))
           [] a.t = "Class" ->
                outcome_of(Token_eq(st.classes[a.class].name, st.classes[b.class].name))
           [] a.t = "Instance" ->
                LET self == st.instances[a.instance]
                    other == st.instances[b.instance]
                IN IF a.instance \in held \/ b.instance \in held \cup {a.instance}
                   THEN "again"
                   ELSE IF ~Token_eq(st.classes[self.class].name,
                                     st.classes[other.class].name)
                        THEN "false"
                   ELSE IF Cardinality(DOMAIN self.fields)
                             # Cardinality(DOMAIN other.fields)
                        THEN "false"
                   ELSE all_entries(
                            {IF f \in DOMAIN other.fields
                             THEN eq(st, self.fields[f], other.fields[f],
                                     held \cup {a.instance, b.instance})
                             ELSE "false" : f \in DOMAIN self.fields})

\* RuntimeValue::equals
equals(st, a, b) == eq(st, a, b, {})

\* Mutex::lock in the thread that holds the lock.
lock_again(st) == IF std.relock = "panic" THEN Panic(st) ELSE Blocked(st)

\* Ok(RuntimeValue::Bool(..)) of a comparison, negated for `!=`.
equality(st, outcome, negated) ==
    IF outcome = "again" THEN lock_again(st)
    ELSE Ok(st, Bool((outcome = "true") # negated))

(***************************************************************************)
(* interpreter.rs                                                          *)
(***************************************************************************)
\* Interpreter::new: the globals, holding clock, are the current environment.
Interpreter_new ==
    LET envs == Environment_define(Environment_new(<<>>), 1, "clock",
                                   BuiltInFunction("clock", <<>>))
    IN [envs |-> envs, classes |-> <<>>, instances |-> <<>>,
        globals |-> 1, environment |-> 1, out |-> <<>>]

\* The ? operator: a failure (or the abort) of r is the result, otherwise K goes on.
try(r, K(_)) == IF r.k # "Ok" THEN r ELSE K(r)

\* look_up.ok_or_else(|| InterpreterError::UndefinedVariable(name.clone()))
ok_or_undefined_variable(st, look_up, name) ==
    IF is_some(look_up) THEN Ok(st, unwrap(look_up))
    ELSE Err(st, InterpreterError("UndefinedVariable", name.lexeme))

\* The outcome of a get_at g: the abort when it panicked.
get_at_outcome(st, g, name) ==
    IF g.panic THEN Panic(st) ELSE ok_or_undefined_variable(st, g.value, name)

\* The look-up that searches from the current environment when the
\* expression has no distance.
look_up_variable_from_current(st, name, expr) ==
    IF ExprKey(expr) \in DOMAIN locals
    THEN get_at_outcome(st, Environment_get_at(st.envs, st.environment,
                                               locals[ExprKey(expr)], name.lexeme),
                        name)
    ELSE ok_or_undefined_variable(st, Environment_get(st.envs, st.environment,
                                                      name.lexeme),
                                  name)

look_up_variable(st, name, expr) ==
    IF ExprKey(expr) \in DOMAIN locals
    THEN get_at_outcome(st, Environment_get_at(st.envs, st.environment,
                                               locals[ExprKey(expr)], name.lexeme),
                        name)
    ELSE ok_or_undefined_variable(st, Environment_get(st.envs, st.globals, name.lexeme),
                                  name)

\* The arithmetic and comparison operators on two numbers.  The numbers are
\* integers here: a quotient is the integer quotient, and the quotient by 0
\* (an infinity or NaN of f64, a number as well) is 0.
number_op(kind, l, r) ==
    CASE kind = "Minus" -> Float(l - r)
      [] kind = "Slash" -> Float(IF r = 0 THEN 0 ELSE l \div r)
      [] kind = "Star" -> Float(l * r)
      [] kind = "Plus" -> Float(l + r)
      [] kind = "Greater" -> Bool(l > r)
      [] kind = "GreaterEqual" -> Bool(l >= r)
      [] kind = "Less" -> Bool(l < r)
      [] kind = "LessEqual" -> Bool(l <= r)

\* Expr::Binary whose + takes a string on the left with anything on the right.
evaluate_binary_string_first(st, kind, left, right) ==
    CASE kind \in {"Minus", "Slash", "Star", "Greater", "GreaterEqual", "Less",
                   "LessEqual"} ->
            IF left.t = "Float" /\ right.t = "Float"
            THEN Ok(st, number_op(kind, left.v, right.v))
            ELSE Err(st, InterpreterError("OperandsMustBeNumbers", Nil))
      [] kind = "Plus" ->
            IF left.t = "Float" /\ right.t = "Float"
            THEN Ok(st, number_op(kind, left.v, right.v))
            ELSE IF left.t = "Str"
                 THEN Ok(st, IF right.t = "Str" THEN Str(left.v \o right.v) ELSE left)
                 ELSE Err(st, InterpreterError("OperandsMustBeNumbersOrStr", Nil))
      [] kind = "BangEqual" -> equality(st, equals(st, left, right), TRUE)
      [] kind = "EqualEqual" -> equality(st, equals(st, left, right), FALSE)
      [] OTHER -> Err(st, InterpreterError("Internal", Nil))

evaluate_binary(st, kind, left, right) ==
    CASE kind \in {"Minus", "Slash", "Star", "Greater", "GreaterEqual", "Less",
                   "LessEqual"} ->
            IF left.t = "Float" /\ right.t = "Float"
            THEN Ok(st, number_op(kind, left.v, right.v))
            ELSE Err(st, InterpreterError("OperandsMustBeNumbers", Nil))
      [] kind = "Plus" ->
            IF left.t = "Float" /\ right.t = "Float"
            THEN Ok(st, number_op(kind, left.v, right.v))
            ELSE IF left.t = "Str" /\ right.t = "Str"
                 THEN Ok(st, Str(left.v \o right.v))
                 ELSE Err(st, InterpreterError("OperandsMustBeNumbersOrStr", Nil))
      [] kind = "BangEqual" -> equality(st, equals(st, left, right), TRUE)
      [] kind = "EqualEqual" -> equality(st, equals(st, left, right), FALSE)
      [] OTHER -> Err(st, InterpreterError("Internal", Nil))

evaluate_unary(st, kind, right) ==
    CASE kind = "Minus" ->
            IF right.t = "Float" THEN Ok(st, Float(0 - right.v))
            ELSE Err(st, InterpreterError("UnaryMinusOperandMustBeNumber", right))
      [] kind = "Bang" -> Ok(st, Bool(~is_truthy(right)))
      [] OTHER -> Err(st, InterpreterError("Internal", Nil))

\* The outcome of an assign_at a that assigned value.
assign_at_outcome(st, a, value) ==
    IF a.panic THEN Panic(st) ELSE Ok([st EXCEPT !.envs = a.envs], value)

\* Expr::Assign that fails when globals.assign found no binding.
evaluate_assign_checked(st, expr, value) ==
    IF ExprKey(expr) \in DOMAIN locals
    THEN assign_at_outcome(st, Environment_assign_at(st.envs, st.environment,
                                                     locals[ExprKey(expr)],
                                                     expr.name.lexeme, value),
                           value)
    ELSE IF is_some(Environment_assign_returned(st.envs, st.globals, expr.name.lexeme))
         THEN Ok([st EXCEPT !.envs = Environment_assign(@, st.globals, expr.name.lexeme,
                                                        value)],
                 value)
         ELSE Err(st, InterpreterError("UndefinedVariable", expr.name.lexeme))

\* Expr::Assign, once the value is evaluated.
evaluate_assign(st, expr, value) ==
    IF ExprKey(expr) \in DOMAIN locals
    THEN assign_at_outcome(st, Environment_assign_at(st.envs, st.environment,
                                                     locals[ExprKey(expr)],
                                                     expr.name.lexeme, value),
                           value)
    ELSE Ok([st EXCEPT !.envs = Environment_assign(@, st.globals, expr.name.lexeme, value)],
            value)

\* The check of a call that leaves the number of arguments alone.
call_refused_when_not_callable(st, callee, arguments) ==
    IF as_callable(callee) THEN None ELSE Some(InterpreterError("NotCallable", callee))

\* Expr::Call's check of the callee and of the number of arguments: the error
\* the call fails with before anything of the callee runs, or None.
call_refused(st, callee, arguments) ==
    IF as_callable(callee)
    THEN IF Len(arguments) # arity(st, callee)
         THEN Some(InterpreterError("FunctionArity",
                                    <<arity(st, callee), Len(arguments)>>))
         ELSE None
    ELSE Some(InterpreterError("NotCallable", callee))

\* The frame as a child of the environment the call is made in.
call_frame_in_caller(st, function, args) ==
    [st EXCEPT !.envs = define_params(Environment_child(st.envs, st.environment),
                                      Len(st.envs) + 1, function.declaration.params,
                                      args)]

\* The frame of a call: a child of the closure with the parameters defined.
call_frame(st, function, args) ==
    [st EXCEPT !.envs = define_params(Environment_child(st.envs, function.closure),
                                      Len(st.envs) + 1, function.declaration.params,
                                      args)]

\* The match without the arm for the Return-signal.
return_uncaught(r) == IF r.k = "Ok" THEN Ok(r.st, Nil) ELSE r

\* UserFunction::call's match on what execute_block returned.
catch_return(r) ==
    CASE r.k = "Err" -> IF r.e.kind = "Return" THEN Ok(r.st, r.e.value) ELSE r
      [] r.k \in {"Panic", "Blocked"} -> r
      [] r.k = "Ok" -> Ok(r.st, Nil)

\* The class call that gives what the initializer gave.
yield_initializer_result(r, instance) == r

\* ClassDefinition::call: `?` on the initializer's result, then the instance.
yield_instance(r, instance) == IF r.k = "Ok" THEN Ok(r.st, Instance(instance)) ELSE r

\* The built-in clock: the time read is no part of the objects.
BuiltInFunction_call(st, function, args) == Ok(st, Float(0))

\* Expr::This: looked up like a variable.
evaluate_this(st, expr) == look_up_variable(st, expr.keyword, expr)

\* Expr::Super, once "super" (sup) and "this" (obj) are read: the superclass's
\* method is bound to the instance.
bind_super_method(st, sup, obj, method) ==
    IF sup.panic \/ obj.panic THEN Panic(st)
    ELSE IF ~is_some(sup.value) \/ ~is_some(obj.value)
         THEN Err(st, InterpreterError("Internal", Nil))
         ELSE IF unwrap(sup.value).t # "Class" \/ unwrap(obj.value).t # "Instance"
              THEN Err(st, InterpreterError("Internal", Nil))
              ELSE IF ~is_some(ClassDefinition_find_method(
                                   st.classes, unwrap(sup.value).class, method.lexeme))
                   THEN Err(st, InterpreterError("UndefinedProperty", method.lexeme))
                   ELSE LET b == UserFunction_bind(
                                     st,
                                     unwrap(ClassDefinition_find_method(
                                         st.classes, unwrap(sup.value).class,
                                         method.lexeme)),
                                     unwrap(obj.value).instance)
                        IN Ok(b.st, b.function)

\* Expr::Super: "super" is read at the recorded distance, "this" one frame
\* nearer.
evaluate_super(st, expr) ==
    IF ExprKey(expr) \notin DOMAIN locals THEN Err(st, InterpreterError("Internal", Nil))
    ELSE bind_super_method(
             st,
             Environment_get_at(st.envs, st.environment, locals[ExprKey(expr)], "super"),
             Environment_get_at(st.envs, st.environment, locals[ExprKey(expr)] - 1,
                                "this"),
             expr.method)

\* instance.get(name).ok_or_else(|| InterpreterError::UndefinedProperty(..))
ok_or_undefined_property(g, name) ==
    IF is_some(g.value) THEN Ok(g.st, unwrap(g.value))
    ELSE Err(g.st, InterpreterError("UndefinedProperty", name.lexeme))

\* ClassInstance::get of value.rs: the field, or todo!() where there is none
\* (this snapshot looks for no method).
ClassInstance_get_or_todo(st, instance, name) ==
    IF name.lexeme \in DOMAIN st.instances[instance].fields
    THEN Ok(st, st.instances[instance].fields[name.lexeme])
    ELSE Panic(st)

\* Expr::Get, once the object is evaluated.
evaluate_get(st, object, name) ==
    IF object.t = "Instance"
    THEN IF build = "value.rs"
         THEN ClassInstance_get_or_todo(st, object.instance, name)
         ELSE ok_or_undefined_property(ClassInstance_get(st, object.instance, name), name)
    ELSE Err(st, InterpreterError("MustAccessValueOnInstances", Nil))

\* Expr::Logical deciding `and` the way it decides `or`.
short_circuits_when_truthy(operator, left) == is_truthy(left)

\* Expr::Logical: whether the left operand decides the result.
short_circuits(operator, left) ==
    IF operator = "Or" THEN is_truthy(left) ELSE ~is_truthy(left)

\* The methods of a class statement, each closing over `closure`.
class_methods(methods, closure) ==
    LET last(name) ==
            CHOOSE i \in 1..Len(methods) :
                /\ methods[i].name.lexeme = name
                /\ \A j \in 1..Len(methods) : methods[j].name.lexeme = name => j <= i
    IN [name \in {methods[i].name.lexeme : i \in 1..Len(methods)} |->
            UserFunction(methods[last(name)], closure)]

\* Stmt::Class with a superclass: the superclass expression must evaluate to
\* a class.
evaluate_superclass(st, stmt) ==
    try(look_up_variable(st, unwrap(stmt.superclass),
                         Expr_Variable(unwrap(stmt.superclass))),
        LAMBDA s : IF s.v.t # "Class"
                   THEN Err(s.st, InterpreterError("SuperclassMustBeAClass", Nil))
                   ELSE s)

\* Stmt::Class with a superclass: the methods close over a new frame that
\* holds "super".
superclass_frame(envs, environment, superclass) ==
    Environment_define(Environment_child(envs, environment),
                       Len(envs) + 1, "super", superclass)

\* Stmt::Class, without a superclass (superclass = 0, closure = the current
\* environment) or with one: the name is defined as nil, the methods are
\* made, and the class is assigned to the name.
declare_class(st, stmt, superclass, closure) ==
    [st EXCEPT
        !.classes = ClassDefinition_new(@, stmt.name, superclass,
                                        class_methods(stmt.methods, closure)),
        !.envs = Environment_assign(@, st.environment, stmt.name.lexeme,
                                    Class(Len(st.classes) + 1))]

\* Stmt::Class with a superclass: the name is defined, the superclass is
\* evaluated, and the class is declared with its methods closing over the
\* frame that holds "super".
execute_subclass(st, stmt) ==
    try(evaluate_superclass(st, stmt),
        LAMBDA s :
            Ok(declare_class(
                   [s.st EXCEPT !.envs = superclass_frame(
                        Environment_define(@, st.environment, stmt.name.lexeme, Nil),
                        st.environment, s.v)],
                   stmt, s.v.class, Len(s.st.envs) + 1),
               Nil))

execute_class(st, stmt) ==
    IF is_some(stmt.superclass) THEN execute_subclass(st, stmt)
    ELSE Ok(declare_class(
                [st EXCEPT !.envs = Environment_define(@, st.environment,
                                                       stmt.name.lexeme, Nil)],
                stmt, 0, st.environment),
            Nil)

RECURSIVE evaluate(_, _), evaluate_arguments(_, _, _), execute(_, _),
          execute_block(_, _, _), execute_statements(_, _, _), block_step(_, _, _),
          execute_while(_, _), UserFunction_call(_, _, _),
          ClassDefinition_call(_, _, _), call(_, _, _), finish_call(_, _, _)

\* arguments.iter().map(|it| self.evaluate(it)).collect::<Result<Vec<_>, _>>():
\* left to right, stopping at the first failure; v is the vector.
evaluate_arguments(st, arguments, done) ==
    IF Len(arguments) = 0 THEN Ok(st, done)
    ELSE try(evaluate(st, Head(arguments)),
             LAMBDA a : evaluate_arguments(a.st, Tail(arguments), Append(done, a.v)))

UserFunction_call(st, function, args) ==
    catch_return(execute_block(call_frame(st, function, args),
                               function.declaration.body, Len(st.envs) + 1))

ClassDefinition_call(st, class, args) ==
    IF is_some(ClassDefinition_find_method(st.classes, class, "init"))
    THEN LET b == UserFunction_bind(
                      [st EXCEPT !.instances = ClassInstance_new(@, class)],
                      unwrap(ClassDefinition_find_method(st.classes, class, "init")),
                      Len(st.instances) + 1)
         IN yield_instance(UserFunction_call(b.st, b.function, args),
                           Len(st.instances) + 1)
    ELSE Ok([st EXCEPT !.instances = ClassInstance_new(@, class)],
            Instance(Len(st.instances) + 1))

call(st, callable, args) ==
    CASE callable.t = "UserFunction" -> UserFunction_call(st, callable, args)
      [] callable.t = "BuiltInFunction" -> BuiltInFunction_call(st, callable, args)
      [] callable.t = "Class" -> ClassDefinition_call(st, callable.class, args)

\* Expr::Call, once the callee and the arguments are evaluated.
finish_call(st, callee, arguments) ==
    IF is_some(call_refused(st, callee, arguments))
    THEN Err(st, unwrap(call_refused(st, callee, arguments)))
    ELSE call(st, callee, arguments)

evaluate(st, expr) ==
    CASE expr.k = "Literal" -> Ok(st, expr.value)
      [] expr.k = "Variable" -> look_up_variable(st, expr.name, expr)
      [] expr.k = "Call" ->
            try(evaluate(st, expr.callee),
                LAMBDA c : try(evaluate_arguments(c.st, expr.arguments, <<>>),
                               LAMBDA a : finish_call(a.st, c.v, a.v)))
      [] expr.k = "Get" ->
            try(evaluate(st, expr.object),
                LAMBDA o : evaluate_get(o.st, o.v, expr.name))
      [] expr.k = "Set" ->
            try(evaluate(st, expr.object),
                LAMBDA o :
                    IF o.v.t = "Instance"
                    THEN try(evaluate(o.st, expr.value),
                             LAMBDA v : Ok(ClassInstance_set(v.st, o.v.instance,
                                                             expr.name, v.v),
                                           v.v))
                    ELSE Err(o.st, InterpreterError("MustAccessValueOnInstances", Nil)))
      [] expr.k = "Grouping" -> evaluate(st, expr.expression)
      [] expr.k = "Unary" ->
            try(evaluate(st, expr.right),
                LAMBDA r : evaluate_unary(r.st, expr.operator, r.v))
      [] expr.k = "Assign" ->
            try(evaluate(st, expr.value), LAMBDA v : evaluate_assign(v.st, expr, v.v))
      [] expr.k = "Binary" ->
            try(evaluate(st, expr.left),
                LAMBDA l : try(evaluate(l.st, expr.right),
                               LAMBDA r : evaluate_binary(r.st, expr.operator, l.v, r.v)))
      [] expr.k = "Logical" ->
            try(evaluate(st, expr.left),
                LAMBDA l : IF short_circuits(expr.operator, l.v) THEN l
                           ELSE evaluate(l.st, expr.right))
      [] expr.k = "This" -> evaluate_this(st, expr)
      [] expr.k = "Super" -> evaluate_super(st, expr)

\* The loop body that returns a failure as it is.
block_step_returning(result, rest, previous) ==
    IF result.k = "Ok" THEN execute_statements(result.st, rest, previous) ELSE result

\* execute_block's loop body, on the result of a statement: a failure
\* restores the environment and is returned.
block_step(result, rest, previous) ==
    CASE result.k = "Err" -> Err([result.st EXCEPT !.environment = previous], result.e)
      [] result.k \in {"Panic", "Blocked"} -> result
      [] result.k = "Ok" -> execute_statements(result.st, rest, previous)

\* The loop of execute_block, on the statements left.
execute_statements(st, statements, previous) ==
    IF Len(statements) = 0 THEN Ok([st EXCEPT !.environment = previous], Nil)
    ELSE block_step(execute(st, Head(statements)), Tail(statements), previous)

execute_block(st, statements, environment) ==
    execute_statements([st EXCEPT !.environment = environment], statements,
                       st.environment)

execute_while(st, stmt) ==
    try(evaluate(st, stmt.condition),
        LAMBDA c : IF is_truthy(c.v)
                   THEN try(execute(c.st, stmt.body),
                            LAMBDA b : execute_while(b.st, stmt))
                   ELSE Ok(c.st, Nil))

execute(st, stmt) ==
    CASE stmt.k = "Expression" ->
            try(evaluate(st, stmt.expression), LAMBDA v : Ok(v.st, Nil))
      [] stmt.k = "Print" ->
            try(evaluate(st, stmt.expression),
                LAMBDA v : Ok([v.st EXCEPT !.out = Append(@, to_string(v.st, v.v))], Nil))
      [] stmt.k = "Return" ->
            IF is_some(stmt.value)
            THEN try(evaluate(st, unwrap(stmt.value)),
                     LAMBDA v : Err(v.st, InterpreterError("Return", v.v)))
            ELSE Err(st, InterpreterError("Return", Nil))
      [] stmt.k = "Var" ->
            try(IF is_some(stmt.initializer)
                THEN evaluate(st, unwrap(stmt.initializer))
                ELSE Ok(st, Nil),
                LAMBDA v : Ok([v.st EXCEPT !.envs = Environment_define(
                                   @, v.st.environment, stmt.name.lexeme, v.v)],
                              Nil))
      [] stmt.k = "Block" ->
            execute_block([st EXCEPT !.envs = Environment_child(@, st.environment)],
                          stmt.statements, Len(st.envs) + 1)
      [] stmt.k = "If" ->
            try(evaluate(st, stmt.condition),
                LAMBDA c : IF is_truthy(c.v) THEN execute(c.st, stmt.then_branch)
                           ELSE IF is_some(stmt.else_branch)
                                THEN execute(c.st, unwrap(stmt.else_branch))
                                ELSE Ok(c.st, Nil))
      [] stmt.k = "While" -> execute_while(st, stmt)
      [] stmt.k = "Function" ->
            Ok([st EXCEPT !.envs = Environment_define(
                    @, st.environment, stmt.fun.name.lexeme,
                    UserFunction(stmt.fun, st.environment))], Nil)
      [] stmt.k = "Class" -> execute_class(st, stmt)

(***************************************************************************)
(* The scripts: what Scanner and Parser hand to the resolver.  A script is *)
(* a record: its family, the parameters it was built from (p), and its     *)
(* statements.                                                             *)
(***************************************************************************)
MaxDepth == 3
MaxCalls == 3

RECURSIVE SetToSeq(_)
SetToSeq(S) ==
    IF S = {} THEN <<>>
    ELSE LET x == CHOOSE y \in S : TRUE IN <<x>> \o SetToSeq(S \ {x})

Script(family, p, statements) == [family |-> family, p |-> p, statements |-> statements]

Var(lexeme, id) == Expr_Variable(Token(lexeme, id))
Number(n) == Expr_Literal(Float(n))
CallStmt(callee, arguments) == Stmt_Expression(Expr_Call(callee, arguments))

\* Shadowing: depth nested blocks; block j declares `var a = j;` when j is in
\* decl; the innermost block ends with `print a;` (token 99).  With global, the
\* script starts with `var a = 0;`.
RECURSIVE shadow_blocks(_, _, _)
shadow_blocks(level, depth, decl) ==
    Stmt_Block(
        (IF level \in decl
         THEN <<Stmt_Var(Token("a", level), Some(Number(level)))>>
         ELSE <<>>)
        \o (IF level = depth
            THEN <<Stmt_Print(Var("a", 99))>>
            ELSE <<shadow_blocks(level + 1, depth, decl)>>))

ShadowParams ==
    {[depth |-> d, decl |-> S, global |-> g] :
        d \in 1..MaxDepth, S \in SUBSET (1..MaxDepth), g \in BOOLEAN}

ShadowScript(p) ==
    Script("Shadow", p,
           (IF p.global THEN <<Stmt_Var(Token("a", 90), Some(Number(0)))>> ELSE <<>>)
           \o <<shadow_blocks(1, p.depth, p.decl)>>)

ShadowScripts ==
    LET ps == SetToSeq({p \in ShadowParams : p.decl \subseteq 1..p.depth})
    IN [i \in 1..Len(ps) |-> ShadowScript(ps[i])]

\* The counter: fun makeCounter(){ var i=0; fun count(){ i=i+1; return i;}
\* return count;} var c=makeCounter(); then `print c();` calls times; with
\* two, a second counter d is made and called before every call of c.
makeCounter ==
    Stmt_Function(FunctionStmt(Token("makeCounter", 1), <<>>,
        <<Stmt_Var(Token("i", 2), Some(Number(0))),
          Stmt_Function(FunctionStmt(Token("count", 3), <<>>,
              <<Stmt_Expression(Expr_Assign(Token("i", 4),
                    Expr_Binary(Var("i", 5), "Plus", Number(1)))),
                Stmt_Return(Some(Var("i", 6)))>>)),
          Stmt_Return(Some(Var("count", 7)))>>))

counter_calls(calls, two) ==
    LET one(n) ==
            (IF two
             THEN <<Stmt_Expression(Expr_Call(Var("d", 200 + n), <<>>))>>
             ELSE <<>>)
            \o <<Stmt_Print(Expr_Call(Var("c", 100 + n), <<>>))>>
        upto[n \in 0..calls] == IF n = 0 THEN <<>> ELSE upto[n - 1] \o one(n)
    IN upto[calls]

CounterScript(p) ==
    Script("Counter", p,
           <<makeCounter,
             Stmt_Var(Token("c", 8), Some(Expr_Call(Var("makeCounter", 9), <<>>)))>>
           \o (IF p.two
               THEN <<Stmt_Var(Token("d", 10),
                               Some(Expr_Call(Var("makeCounter", 11), <<>>)))>>
               ELSE <<>>)
           \o counter_calls(p.calls, p.two))

CounterScripts ==
    LET ps == SetToSeq({[calls |-> n, two |-> t] : n \in 0..MaxCalls, t \in BOOLEAN})
    IN [i \in 1..Len(ps) |-> CounterScript(ps[i])]

\* statements inside depth nested blocks (depth = 0: as they are).
RECURSIVE nest(_, _)
nest(statements, depth) ==
    IF depth = 0 THEN statements ELSE <<Stmt_Block(nest(statements, depth - 1))>>

\* Reading a variable in its own initializer: depth nested blocks; block
\* j < depth declares `var a = j;` when j is in decl; the innermost block holds
\* `var a = <read> + 1; print a;` where read is a or b.  With global, the
\* script starts with `var a = 0; var b = 0;`.
RECURSIVE selfinit_blocks(_, _)
selfinit_blocks(level, p) ==
    Stmt_Block(
        IF level = p.depth
        THEN <<Stmt_Var(Token("a", 50),
                        Some(Expr_Binary(Var(p.read, 51), "Plus", Number(1)))),
               Stmt_Print(Var("a", 52))>>
        ELSE (IF level \in p.decl
              THEN <<Stmt_Var(Token("a", level), Some(Number(level)))>>
              ELSE <<>>)
             \o <<selfinit_blocks(level + 1, p)>>)

SelfInitScript(p) ==
    Script("SelfInit", p,
           (IF p.global
            THEN <<Stmt_Var(Token("a", 90), Some(Number(0))),
                   Stmt_Var(Token("b", 91), Some(Number(0)))>>
            ELSE <<>>)
           \o <<selfinit_blocks(1, p)>>)

SelfInitScripts ==
    LET ps == SetToSeq({p \in [depth : 1..MaxDepth, decl : SUBSET (1..MaxDepth),
                               global : BOOLEAN, read : {"a", "b"}] :
                            p.decl \subseteq 1..(p.depth - 1)})
    IN [i \in 1..Len(ps) |-> SelfInitScript(ps[i])]

\* Declaring twice: inside depth nested blocks (depth = 0 is the top level),
\*   var_var      var a = 1; var a = 2; print a;
\*   fun_fun      fun a() {} fun a() {}
\*   class_class  class a {} class a {}
\*   param_param  fun f(a, a) {}
\*   param_var    fun f(a) { var a = 1; }
\*   shadow       var a = 1; { var a = 2; }
\*   param_shadow fun f(a) { { var a = 1; } }
DupStatements(what) ==
    CASE what = "var_var" ->
            <<Stmt_Var(Token("a", 60), Some(Number(1))),
              Stmt_Var(Token("a", 61), Some(Number(2))),
              Stmt_Print(Var("a", 62))>>
      [] what = "fun_fun" ->
            <<Stmt_Function(FunctionStmt(Token("a", 60), <<>>, <<>>)),
              Stmt_Function(FunctionStmt(Token("a", 61), <<>>, <<>>))>>
      [] what = "class_class" ->
            <<Stmt_Class(Token("a", 60), None, <<>>),
              Stmt_Class(Token("a", 61), None, <<>>)>>
      [] what = "param_param" ->
            <<Stmt_Function(FunctionStmt(Token("f", 60),
                                         <<Token("a", 61), Token("a", 62)>>, <<>>))>>
      [] what = "param_var" ->
            <<Stmt_Function(FunctionStmt(Token("f", 60), <<Token("a", 61)>>,
                  <<Stmt_Var(Token("a", 62), Some(Number(1)))>>))>>
      [] what = "shadow" ->
            <<Stmt_Var(Token("a", 60), Some(Number(1))),
              Stmt_Block(<<Stmt_Var(Token("a", 61), Some(Number(2)))>>)>>
      [] what = "param_shadow" ->
            <<Stmt_Function(FunctionStmt(Token("f", 60), <<Token("a", 61)>>,
                  <<Stmt_Block(<<Stmt_Var(Token("a", 62), Some(Number(1)))>>)>>))>>

DupScript(p) == Script("Dup", p, nest(DupStatements(p.what), p.depth))

DupScripts ==
    LET ps == SetToSeq([what : {"var_var", "fun_fun", "class_class", "param_param",
                                "param_var", "shadow", "param_shadow"},
                        depth : 0..MaxDepth])
    IN [i \in 1..Len(ps) |-> DupScript(ps[i])]

MaxArity == 2
MaxChain == 3

\* The names the scripts give to parameters and to the classes of a chain.
ParamNames == <<"p1", "p2", "p3", "p4">>
ClassNames == <<"K1", "K2", "K3", "K4", "K5">>

\* Calls with any number of arguments: a function f, or a class K whose init
\* is that function, with params parameters and the body `g = 1; print 5;`,
\* called with args arguments:
\*   var g = 0; fun f(p1, ..) { g = 1; print 5; } f(1, ..); print g;
arity_function(name, params) ==
    FunctionStmt(Token(name, 70), [i \in 1..params |-> Token(ParamNames[i], 70 + i)],
                 <<Stmt_Expression(Expr_Assign(Token("g", 80), Number(1))),
                   Stmt_Print(Number(5))>>)

ArityScript(p) ==
    Script("Arity", p,
           <<Stmt_Var(Token("g", 81), Some(Number(0))),
             IF p.callee = "fun"
             THEN Stmt_Function(arity_function("f", p.params))
             ELSE Stmt_Class(Token("f", 82), None, <<arity_function("init", p.params)>>),
             CallStmt(Var("f", 83), [i \in 1..p.args |-> Number(i)]),
             Stmt_Print(Var("g", 84))>>)

ArityScripts ==
    LET ps == SetToSeq([callee : {"fun", "class"}, params : 0..MaxArity,
                        args : 0..MaxArity])
    IN [i \in 1..Len(ps) |-> ArityScript(ps[i])]

\* A chain of classes K1, K2 < K1, .., each defining m() { print j; } when j
\* is in defs; an instance of the class start is made and its m is called:
\*   class K1 { m() { print 1; } } class K2 < K1 {} var o = K2(); o.m();
chain_class(j, defs) ==
    Stmt_Class(Token(ClassNames[j], 300 + j),
               IF j = 1 THEN None ELSE Some(Token(ClassNames[j - 1], 320 + j)),
               IF j \in defs
               THEN <<FunctionStmt(Token("m", 340 + j), <<>>, <<Stmt_Print(Number(j))>>)>>
               ELSE <<>>)

ClassChainScript(p) ==
    Script("ClassChain", p,
           [j \in 1..p.length |-> chain_class(j, p.defs)]
           \o <<Stmt_Var(Token("o", 360),
                         Some(Expr_Call(Var(ClassNames[p.start], 361), <<>>))),
                CallStmt(Expr_Get(Var("o", 362), Token("m", 363)), <<>>)>>)

ClassChainScripts ==
    LET ps == SetToSeq({p \in [length : 1..MaxChain, defs : SUBSET (1..MaxChain),
                               start : 1..MaxChain] :
                            p.defs \subseteq 1..p.length /\ p.start <= p.length})
    IN [i \in 1..Len(ps) |-> ClassChainScript(ps[i])]

\* m() { print j; } or m() { print j; <then> }
print_method(name, id, j, then) ==
    FunctionStmt(Token(name, id), <<>>, <<Stmt_Print(Number(j))>> \o then)

\* super.m();
super_m(id) == CallStmt(Expr_Super(Token("super", id), Token("m", id + 1)), <<>>)

\* super in a chain, and super in a class declared inside a method of a
\* subclass.  In the chain every class defines m and n, m going on to the
\* superclass's m, and the root's m to this.n():
\*   class A { m() { print 1; this.n(); } n() { print 11; } }
\*   class B < A { m() { print 2; super.m(); } n() { print 12; } }
\*   class C < B { m() { print 3; super.m(); } n() { print 13; } }
\*   var o = C(); o.m();              (or B(), with dynamic = 2)
\* Nested:
\*   class A { m() { print 1; } }  class X { m() { print 9; } }
\*   class B < A { k() { class D < X { m() { super.m(); } } D().m(); } }
\*   B().k();
SuperScript(p) ==
    Script("Super", p,
        IF p.nested
        THEN <<Stmt_Class(Token("A", 400), None, <<print_method("m", 401, 1, <<>>)>>),
               Stmt_Class(Token("X", 402), None, <<print_method("m", 403, 9, <<>>)>>),
               Stmt_Class(Token("B", 404), Some(Token("A", 405)),
                   <<FunctionStmt(Token("k", 406), <<>>,
                       <<Stmt_Class(Token("D", 407), Some(Token("X", 408)),
                             <<FunctionStmt(Token("m", 409), <<>>, <<super_m(410)>>)>>),
                         CallStmt(Expr_Get(Expr_Call(Var("D", 412), <<>>),
                                           Token("m", 413)), <<>>)>>)>>),
               CallStmt(Expr_Get(Expr_Call(Var("B", 414), <<>>), Token("k", 415)),
                        <<>>)>>
        ELSE <<Stmt_Class(Token("A", 400), None,
                   <<print_method("m", 401, 1,
                         <<CallStmt(Expr_Get(Expr_This(Token("this", 402)),
                                             Token("n", 403)), <<>>)>>),
                     print_method("n", 404, 11, <<>>)>>),
               Stmt_Class(Token("B", 405), Some(Token("A", 406)),
                   <<print_method("m", 407, 2, <<super_m(408)>>),
                     print_method("n", 410, 12, <<>>)>>),
               Stmt_Class(Token("C", 411), Some(Token("B", 412)),
                   <<print_method("m", 413, 3, <<super_m(414)>>),
                     print_method("n", 416, 13, <<>>)>>),
               Stmt_Var(Token("o", 417),
                        Some(Expr_Call(Var(IF p.dynamic = 2 THEN "B" ELSE "C", 418),
                                       <<>>))),
               CallStmt(Expr_Get(Var("o", 419), Token("m", 420)), <<>>)>>)

SuperScripts ==
    LET ps == SetToSeq({p \in [nested : BOOLEAN, dynamic : 2..3] :
                            p.nested => p.dynamic = 2})
    IN [i \in 1..Len(ps) |-> SuperScript(ps[i])]

\* A field named like a method: K defines f; o and q are instances of K, or
\* of its subclass S when inherited; with set, o.f is assigned 5 or nil:
\*   class K { f() { print 1; } } var o = K(); var q = K();
\*   o.f = 5; print o.f; q.f();
PropShadowScript(p) ==
    Script("PropShadow", p,
        <<Stmt_Class(Token("K", 500), None, <<print_method("f", 501, 1, <<>>)>>)>>
        \o (IF p.inherited
            THEN <<Stmt_Class(Token("S", 502), Some(Token("K", 503)), <<>>)>>
            ELSE <<>>)
        \o <<Stmt_Var(Token("o", 504),
                      Some(Expr_Call(Var(IF p.inherited THEN "S" ELSE "K", 505), <<>>))),
             Stmt_Var(Token("q", 506),
                      Some(Expr_Call(Var(IF p.inherited THEN "S" ELSE "K", 507), <<>>)))>>
        \o (IF p.set
            THEN <<Stmt_Expression(
                       Expr_Set(Var("o", 508), Token("f", 509),
                                IF p.value = "number" THEN Number(5)
                                ELSE Expr_Literal(Nil)))>>
            ELSE <<>>)
        \o <<Stmt_Print(Expr_Get(Var("o", 510), Token("f", 511))),
             CallStmt(Expr_Get(Var("q", 512), Token("f", 513)), <<>>)>>)

PropShadowScripts ==
    LET ps == SetToSeq([inherited : BOOLEAN, set : BOOLEAN, value : {"number", "nil"}])
    IN [i \in 1..Len(ps) |-> PropShadowScript(ps[i])]

\* What the resolver refuses, each inside depth nested blocks, between
\* `print 1; var g = 1;` and `print 2;`:
\*   dup                 { var a; var a; }
\*   own_initializer     { var a = a; }
\*   return              return;
\*   init_return         class K { init() { return 1; } }
\*   this                print this;
\*   super_outside       super.m();
\*   super_no_superclass class K { m() { super.m(); } }
\*   inherit_itself      class K < K {}
ResolverErrorStatement(error) ==
    CASE error = "dup" ->
            Stmt_Block(<<Stmt_Var(Token("a", 600), None), Stmt_Var(Token("a", 601), None)>>)
      [] error = "own_initializer" ->
            Stmt_Block(<<Stmt_Var(Token("a", 600), Some(Var("a", 601)))>>)
      [] error = "return" -> Stmt_Return(None)
      [] error = "init_return" ->
            Stmt_Class(Token("K", 600), None,
                       <<FunctionStmt(Token("init", 601), <<>>,
                                      <<Stmt_Return(Some(Number(1)))>>)>>)
      [] error = "this" -> Stmt_Print(Expr_This(Token("this", 600)))
      [] error = "super_outside" -> super_m(600)
      [] error = "super_no_superclass" ->
            Stmt_Class(Token("K", 602), None,
                       <<FunctionStmt(Token("m", 603), <<>>, <<super_m(600)>>)>>)
      [] error = "inherit_itself" ->
            Stmt_Class(Token("K", 600), Some(Token("K", 601)), <<>>)

\* The message of the todo!() each of them runs into (the line number that
\* follows the message about this is left out).
ResolverErrorMessage(error) ==
    CASE error = "dup" -> "Already variable with this name in this scope."
      [] error = "own_initializer" -> "Can't read local variable in its own initializer."
      [] error = "return" -> "Can't return from top-level code."
      [] error = "init_return" -> "Can't return a value from an initializer."
      [] error = "this" -> "Can't use 'this' outside of a class."
      [] error = "super_outside" -> "Can't use 'super' outside of a class."
      [] error = "super_no_superclass" -> "Can't use 'super' with no superclass."
      [] error = "inherit_itself" -> "A class can't inherit from itself."

ResolverErrorScript(p) ==
    Script("ResolverError", p,
           <<Stmt_Print(Number(1)), Stmt_Var(Token("g", 610), Some(Number(1)))>>
           \o nest(<<ResolverErrorStatement(p.error)>>, p.depth)
           \o <<Stmt_Print(Number(2))>>)

ResolverErrorScripts ==
    LET ps == SetToSeq([error : {"dup", "own_initializer", "return", "init_return",
                                 "this", "super_outside", "super_no_superclass",
                                 "inherit_itself"},
                        depth : 0..MaxDepth])
    IN [i \in 1..Len(ps) |-> ResolverErrorScript(ps[i])]

\* `return 7;` inside depth nested blocks, whiles or ifs.
RECURSIVE wrapped_return(_, _)
wrapped_return(wrap, depth) ==
    IF depth = 0 THEN Stmt_Return(Some(Number(7)))
    ELSE CASE wrap = "block" -> Stmt_Block(<<wrapped_return(wrap, depth - 1)>>)
           [] wrap = "while" ->
                Stmt_While(Expr_Literal(Bool(TRUE)), wrapped_return(wrap, depth - 1))
           [] wrap = "if" ->
                Stmt_If(Expr_Literal(Bool(TRUE)), wrapped_return(wrap, depth - 1), None)

\* f() { var y = 3; <the wrapped return> print 0; }
returning_function(name, p) ==
    FunctionStmt(Token(name, 700), <<>>,
                 <<Stmt_Var(Token("y", 701), Some(Number(3))),
                   wrapped_return(p.wrap, p.depth),
                   Stmt_Print(Number(0))>>)

\* Returning: the function above is f, the method f of K, or inner, declared
\* and called in f, which goes on and returns its own value; it is called in
\* a block that then reads its own variable:
\*   fun f() { .. } { var x = 1; print f(); print x; } print 8;
\*   class K { f() { .. } } { var x = 1; print K().f(); print x; } print 8;
\*   fun f() { fun inner() { .. } var r = inner(); print r; return r + 1; } ..
ReturnScript(p) ==
    Script("Return", p,
        <<CASE p.callee = "fun" -> Stmt_Function(returning_function("f", p))
            [] p.callee = "method" ->
                  Stmt_Class(Token("K", 710), None, <<returning_function("f", p)>>)
            [] p.callee = "nested" ->
                  Stmt_Function(FunctionStmt(Token("f", 711), <<>>,
                      <<Stmt_Function(returning_function("inner", p)),
                        Stmt_Var(Token("r", 712),
                                 Some(Expr_Call(Var("inner", 713), <<>>))),
                        Stmt_Print(Var("r", 714)),
                        Stmt_Return(Some(Expr_Binary(Var("r", 715), "Plus",
                                                     Number(1))))>>)),
          Stmt_Block(
              <<Stmt_Var(Token("x", 720), Some(Number(1))),
                Stmt_Print(
                    IF p.callee = "method"
                    THEN Expr_Call(Expr_Get(Expr_Call(Var("K", 721), <<>>),
                                            Token("f", 722)), <<>>)
                    ELSE Expr_Call(Var("f", 721), <<>>)),
                Stmt_Print(Var("x", 723))>>),
          Stmt_Print(Number(8))>>)

ReturnScripts ==
    LET ps == SetToSeq([wrap : {"block", "while", "if"}, depth : 0..MaxDepth,
                        callee : {"fun", "method", "nested"}])
    IN [i \in 1..Len(ps) |-> ReturnScript(ps[i])]

MaxStatements == 3

\* Statements in order, one of them failing: after `var g = 0;`, statement i
\* of MaxStatements is `print g = g + 1;`, but statement fail (when not 0) is
\*   { g = g + 100; <the error>; print 99; }
\* where the error is the read of an undefined variable, a call of a number,
\* or 1 - "x".
halting_statement(i, p) ==
    IF i # p.fail
    THEN Stmt_Print(Expr_Assign(Token("g", 800 + i),
                                Expr_Binary(Var("g", 810 + i), "Plus", Number(1))))
    ELSE Stmt_Block(
             <<Stmt_Expression(Expr_Assign(Token("g", 820),
                                           Expr_Binary(Var("g", 821), "Plus",
                                                       Number(100)))),
               Stmt_Expression(
                   CASE p.error = "UndefinedVariable" -> Var("nope", 822)
                     [] p.error = "NotCallable" -> Expr_Call(Number(1), <<>>)
                     [] p.error = "OperandsMustBeNumbers" ->
                           Expr_Binary(Number(1), "Minus", Expr_Literal(Str(<<"x">>)))),
               Stmt_Print(Number(99))>>)

HaltScripts ==
    LET ps == SetToSeq([fail : 0..MaxStatements,
                        error : {"UndefinedVariable", "NotCallable",
                                 "OperandsMustBeNumbers"}])
    IN [i \in 1..Len(ps) |->
            Script("Halt", ps[i],
                   <<Stmt_Var(Token("g", 830), Some(Number(0)))>>
                   \o [j \in 1..MaxStatements |-> halting_statement(j, ps[i])])]

MaxLines == 2

\* The lines typed at the prompt: one that defines a global,
\*   var g = 1;    fun f() { return 2; }    class K {}    var h = 3; nope;
\* (the last one fails after its definition), or one that reads it:
\*   print g;      print f();               print K;      print h;
LineStatements(p) ==
    IF p.role = "define"
    THEN CASE p.what = "var" -> <<Stmt_Var(Token("g", 900), Some(Number(1)))>>
           [] p.what = "fun" ->
                 <<Stmt_Function(FunctionStmt(Token("f", 900), <<>>,
                                              <<Stmt_Return(Some(Number(2)))>>))>>
           [] p.what = "class" -> <<Stmt_Class(Token("K", 900), None, <<>>)>>
           [] p.what = "fail" ->
                 <<Stmt_Var(Token("h", 900), Some(Number(3))),
                   Stmt_Expression(Var("nope", 901))>>
    ELSE CASE p.what = "var" -> <<Stmt_Print(Var("g", 910))>>
           [] p.what = "fun" -> <<Stmt_Print(Expr_Call(Var("f", 910), <<>>))>>
           [] p.what = "class" -> <<Stmt_Print(Var("K", 910))>>
           [] p.what = "fail" -> <<Stmt_Print(Var("h", 910))>>

LineScripts ==
    LET ps == SetToSeq([role : {"define", "read"}, what : {"var", "fun", "class", "fail"}])
    IN [i \in 1..Len(ps) |-> Script("Line", ps[i], LineStatements(ps[i]))]

\* The variants of RuntimeValue, and an expression of each for the left and
\* for the right of an operator: nil, true / false, 6 / 3, "ab" / "c", clock,
\* and f, K, o of `fun f() {} class K {} var o = K();`.
Variants ==
    <<"Nil", "Bool", "Float", "Str", "BuiltInFunction", "UserFunction", "Class", "Instance">>

BinaryOperators ==
    <<"Plus", "Minus", "Slash", "Star", "Greater", "GreaterEqual", "Less", "LessEqual">>

operand(variant, left) ==
    CASE variant = "Nil" -> Expr_Literal(Nil)
      [] variant = "Bool" -> Expr_Literal(Bool(left))
      [] variant = "Float" -> Number(IF left THEN 6 ELSE 3)
      [] variant = "Str" -> Expr_Literal(Str(IF left THEN <<"a", "b">> ELSE <<"c">>))
      [] variant = "BuiltInFunction" -> Var("clock", IF left THEN 1000 ELSE 1001)
      [] variant = "UserFunction" -> Var("f", IF left THEN 1000 ELSE 1001)
      [] variant = "Class" -> Var("K", IF left THEN 1000 ELSE 1001)
      [] variant = "Instance" -> Var("o", IF left THEN 1000 ELSE 1001)

\* An operator on every pair of variants (unary minus on every variant):
\*   fun f() {} class K {} var o = K(); print <left> <op> <right>;
OperandsScripts ==
    LET variants == Len(Variants)
        pairs == variants * variants
        binary == Len(BinaryOperators) * pairs
        params(i) ==
            IF i <= binary
            THEN [op |-> BinaryOperators[((i - 1) \div pairs) + 1],
                  left |-> Variants[(((i - 1) \div variants) % variants) + 1],
                  right |-> Variants[((i - 1) % variants) + 1]]
            ELSE [op |-> "UnaryMinus", left |-> Variants[i - binary],
                  right |-> Variants[i - binary]]
    IN [i \in 1..(binary + variants) |->
            Script("Operands", params(i),
                   <<Stmt_Function(FunctionStmt(Token("f", 1002), <<>>, <<>>)),
                     Stmt_Class(Token("K", 1003), None, <<>>),
                     Stmt_Var(Token("o", 1004), Some(Expr_Call(Var("K", 1005), <<>>))),
                     Stmt_Print(IF params(i).op = "UnaryMinus"
                                THEN Expr_Unary("Minus", operand(params(i).right, FALSE))
                                ELSE Expr_Binary(operand(params(i).left, TRUE),
                                                 params(i).op,
                                                 operand(params(i).right, FALSE)))>>)]

\* Expressions with a distance, and the frame they reach.  With shadowed, two
\* scopes on the way hold the name:
\*   read    { var a = 1; { [var a = 2;] print a; } }
\*   assign  { var a = 1; { [var a = 2;] a = 3; print a; } print a; }
\*   this    class B { m() { print this.tag; } } var b = B(); b.tag = 2; b.m();
\*           or, shadowed, B declared and used inside a method of A:
\*           class A { k() { <the above> } } var a = A(); a.tag = 1; a.k();
FramesStatements(p) ==
    LET inner == IF p.shadowed
                 THEN <<Stmt_Var(Token("a", 1101), Some(Number(2)))>>
                 ELSE <<>>
        class_B ==
            <<Stmt_Class(Token("B", 1110), None,
                  <<FunctionStmt(Token("m", 1111), <<>>,
                        <<Stmt_Print(Expr_Get(Expr_This(Token("this", 1112)),
                                              Token("tag", 1113)))>>)>>),
              Stmt_Var(Token("b", 1114), Some(Expr_Call(Var("B", 1115), <<>>))),
              Stmt_Expression(Expr_Set(Var("b", 1116), Token("tag", 1117), Number(2))),
              CallStmt(Expr_Get(Var("b", 1118), Token("m", 1119)), <<>>)>>
    IN CASE p.what = "read" ->
                <<Stmt_Block(<<Stmt_Var(Token("a", 1100), Some(Number(1))),
                               Stmt_Block(inner \o <<Stmt_Print(Var("a", 1102))>>)>>)>>
         [] p.what = "assign" ->
                <<Stmt_Block(
                      <<Stmt_Var(Token("a", 1100), Some(Number(1))),
                        Stmt_Block(inner
                                   \o <<Stmt_Expression(Expr_Assign(Token("a", 1103),
                                                                    Number(3))),
                                        Stmt_Print(Var("a", 1102))>>),
                        Stmt_Print(Var("a", 1104))>>)>>
         [] p.what = "this" ->
                IF p.shadowed
                THEN <<Stmt_Class(Token("A", 1120), None,
                                  <<FunctionStmt(Token("k", 1121), <<>>, class_B)>>),
                       Stmt_Var(Token("a", 1122), Some(Expr_Call(Var("A", 1123), <<>>))),
                       Stmt_Expression(Expr_Set(Var("a", 1124), Token("tag", 1125),
                                                Number(1))),
                       CallStmt(Expr_Get(Var("a", 1126), Token("k", 1127)), <<>>)>>
                ELSE class_B

FramesScripts ==
    LET ps == SetToSeq([what : {"read", "assign", "this"}, shadowed : BOOLEAN])
    IN [i \in 1..Len(ps) |-> Script("Frames", ps[i], FramesStatements(ps[i]))]

\* Leaving nested blocks: depth blocks, the innermost holding `var y = 2;`
\* and, with exit = "error", the failing `nope;`; they stand in a block that
\* reads its own x afterwards, or, with call, in the body of f called there:
\*   { var x = 1; { { var y = 2; nope; } } print x; }
\*   fun f() { { { var y = 2; } } }  { var x = 1; f(); print x; }
RestoreScripts ==
    LET ps == SetToSeq([exit : {"success", "error"}, depth : 1..MaxDepth,
                        call : BOOLEAN])
        blocks(p) ==
            nest(<<Stmt_Var(Token("y", 1200), Some(Number(2)))>>
                 \o (IF p.exit = "error"
                     THEN <<Stmt_Expression(Var("nope", 1201))>>
                     ELSE <<>>),
                 p.depth)
    IN [i \in 1..Len(ps) |->
            Script("Restore", ps[i],
                   (IF ps[i].call
                    THEN <<Stmt_Function(FunctionStmt(Token("f", 1202), <<>>,
                                                      blocks(ps[i])))>>
                    ELSE <<>>)
                   \o <<Stmt_Block(
                            <<Stmt_Var(Token("x", 1203), Some(Number(1)))>>
                            \o (IF ps[i].call
                                THEN <<CallStmt(Var("f", 1204), <<>>)>>
                                ELSE blocks(ps[i]))
                            \o <<Stmt_Print(Var("x", 1205))>>)>>)]

\* A name without a distance that a local frame binds: f is resolved before
\* the block declares a, and called after; f reads a or assigns to it; with
\* global, the script starts with `var a = 0;`:
\*   { fun f() { print a; } var a = 1; f(); print a; }
\*   { fun f() { a = 5; } var a = 1; f(); print a; }
LateScripts ==
    LET ps == SetToSeq([access : {"read", "assign"}, global : BOOLEAN])
    IN [i \in 1..Len(ps) |->
            Script("Late", ps[i],
                   (IF ps[i].global
                    THEN <<Stmt_Var(Token("a", 1300), Some(Number(0)))>>
                    ELSE <<>>)
                   \o <<Stmt_Block(
                            <<Stmt_Function(FunctionStmt(Token("f", 1301), <<>>,
                                  <<IF ps[i].access = "read"
                                    THEN Stmt_Print(Var("a", 1302))
                                    ELSE Stmt_Expression(
                                             Expr_Assign(Token("a", 1302), Number(5)))>>)),
                              Stmt_Var(Token("a", 1303), Some(Number(1))),
                              CallStmt(Var("f", 1304), <<>>),
                              Stmt_Print(Var("a", 1305))>>)>>)]

\* return, with a value (`return 1;`) or without (`return;`), at a place:
\*   top               return;
\*   after_function    fun f() {} return;
\*   function          fun f() { return; }
\*   method            class K { m() { return; } }
\*   init              class K { init() { return; } }
\*   function_in_init  class K { init() { fun g() { return; } } }
ReturnPlaceScripts ==
    LET ps == SetToSeq([place : {"top", "after_function", "function", "method", "init",
                                 "function_in_init"},
                        value : BOOLEAN])
        return(p) == <<Stmt_Return(IF p.value THEN Some(Number(1)) ELSE None)>>
        method(name, body) ==
            <<Stmt_Class(Token("K", 1400), None,
                         <<FunctionStmt(Token(name, 1401), <<>>, body)>>)>>
        function(name, body) ==
            <<Stmt_Function(FunctionStmt(Token(name, 1402), <<>>, body))>>
    IN [i \in 1..Len(ps) |->
            Script("ReturnPlace", ps[i],
                   CASE ps[i].place = "top" -> return(ps[i])
                     [] ps[i].place = "after_function" ->
                           function("f", <<>>) \o return(ps[i])
                     [] ps[i].place = "function" -> function("f", return(ps[i]))
                     [] ps[i].place = "method" -> method("m", return(ps[i]))
                     [] ps[i].place = "init" -> method("init", return(ps[i]))
                     [] ps[i].place = "function_in_init" ->
                           method("init", function("g", return(ps[i]))))]

\* `this;` or `super.m;` (X below) at a place:
\*   top                    X
\*   function               fun f() { X }
\*   after_class            class A { m() {} } X
\*   after_subclass         class A {} class B < A {} X
\*   class                  class A { m() { X } }
\*   function_in_class      class A { m() { fun f() { X } } }
\*   subclass               class A {} class B < A { m() { X } }
\*   after_nested_subclass  class A {} class C { m() { class B < A {} X } }
\*   nested_class           class A {} class B < A { m() { class C { n() { X } } } }
\*   after_nested_class     class A {} class B < A { m() { class C {} X } }
ContextPlaces ==
    <<"top", "function", "after_class", "after_subclass", "class", "function_in_class",
      "subclass", "after_nested_subclass", "nested_class", "after_nested_class">>

ContextScripts ==
    LET X(keyword) ==
            <<Stmt_Expression(IF keyword = "this"
                              THEN Expr_This(Token("this", 1500))
                              ELSE Expr_Super(Token("super", 1500), Token("m", 1501)))>>
        class(name, id, superclass, methods) ==
            <<Stmt_Class(Token(name, id), superclass, methods)>>
        method(name, id, body) == <<FunctionStmt(Token(name, id), <<>>, body)>>
        function(body) == <<Stmt_Function(FunctionStmt(Token("f", 1502), <<>>, body))>>
        A == class("A", 1503, None, <<>>)
        SuperA == Some(Token("A", 1504))
        statements(place, x) ==
            CASE place = "top" -> x
              [] place = "function" -> function(x)
              [] place = "after_class" ->
                    class("A", 1503, None, method("m", 1505, <<>>)) \o x
              [] place = "after_subclass" -> A \o class("B", 1506, SuperA, <<>>) \o x
              [] place = "class" -> class("A", 1503, None, method("m", 1505, x))
              [] place = "function_in_class" ->
                    class("A", 1503, None, method("m", 1505, function(x)))
              [] place = "subclass" -> A \o class("B", 1506, SuperA, method("m", 1505, x))
              [] place = "after_nested_subclass" ->
                    A \o class("C", 1507, None,
                               method("m", 1505, class("B", 1506, SuperA, <<>>) \o x))
              [] place = "nested_class" ->
                    A \o class("B", 1506, SuperA,
                               method("m", 1505,
                                      class("C", 1507, None, method("n", 1508, x))))
              [] place = "after_nested_class" ->
                    A \o class("B", 1506, SuperA,
                               method("m", 1505, class("C", 1507, None, <<>>) \o x))
    IN [i \in 1..(2 * Len(ContextPlaces)) |->
            LET keyword == IF i % 2 = 0 THEN "this" ELSE "super"
                place == ContextPlaces[(i + 1) \div 2]
            IN Script("Context", [keyword |-> keyword, place |-> place],
                      statements(place, X(keyword)))]

\* A function, or a method, that calls itself `depth` more times and never
\* returns, declared in a block and called from an inner block that has an n
\* of its own:
\*   { fun f(n, a) { var seen = n; if (n > 0) f(n - 1, a + 1); }
\*     { var n = 99; print f(depth, 7); } }
\*   { class K { m(n, a) { var seen = n; if (n > 0) this.m(n - 1, a + 1); } }
\*     { var n = 99; print K().m(depth, 7); } }
InvokeScripts ==
    LET ps == SetToSeq([kind : {"function", "method"}, depth : 0..(MaxCalls - 1)])
        declaration(name, callee) ==
            FunctionStmt(Token(name, 1600), <<Token("n", 1601), Token("a", 1602)>>,
                         <<Stmt_Var(Token("seen", 1603), Some(Var("n", 1604))),
                           Stmt_If(Expr_Binary(Var("n", 1605), "Greater", Number(0)),
                                   CallStmt(callee,
                                            <<Expr_Binary(Var("n", 1607), "Minus",
                                                          Number(1)),
                                              Expr_Binary(Var("a", 1608), "Plus",
                                                          Number(1))>>),
                                   None)>>)
        declared(p) ==
            IF p.kind = "function"
            THEN Stmt_Function(declaration("f", Var("f", 1606)))
            ELSE Stmt_Class(Token("K", 1610), None,
                            <<declaration("m", Expr_Get(Expr_This(Token("this", 1606)),
                                                        Token("m", 1609)))>>)
        first_callee(p) ==
            IF p.kind = "function"
            THEN Var("f", 1611)
            ELSE Expr_Get(Expr_Call(Var("K", 1611), <<>>), Token("m", 1612))
    IN [i \in 1..Len(ps) |->
            Script("Invoke", ps[i],
                   <<Stmt_Block(
                       <<declared(ps[i]),
                         Stmt_Block(
                             <<Stmt_Var(Token("n", 1613), Some(Number(99))),
                               Stmt_Print(Expr_Call(first_callee(ps[i]),
                                                    <<Number(ps[i].depth),
                                                      Number(7)>>))>>)>>)>>)]

\* Making an instance: class A without init, with an init of its own, or
\* class B inheriting A's; init counts its calls in g, stores each parameter in
\* the field of the same name and, with fails, ends with the undefined `nope;`:
\*   var g = 0; class A { init(p1, p2) { g = g + 1; this.p1 = p1; this.p2 = p2; nope; } }
\*   class B < A {}  var o = B(11, 12); print g;
ConstructScripts ==
    LET ps == SetToSeq({p \in [init : {"none", "own", "inherited"}, params : 0..MaxArity,
                                args : 0..MaxArity, fails : BOOLEAN] :
                            p.init = "none" => p.params = 0 /\ ~p.fails})
        store(j) ==
            Stmt_Expression(Expr_Set(Expr_This(Token("this", 1710 + j)),
                                     Token(ParamNames[j], 1720 + j),
                                     Var(ParamNames[j], 1730 + j)))
        init(p) ==
            FunctionStmt(Token("init", 1701),
                         [j \in 1..p.params |-> Token(ParamNames[j], 1740 + j)],
                         <<Stmt_Expression(
                               Expr_Assign(Token("g", 1702),
                                           Expr_Binary(Var("g", 1703), "Plus", Number(1))))>>
                         \o [j \in 1..p.params |-> store(j)]
                         \o (IF p.fails
                             THEN <<Stmt_Expression(Var("nope", 1704))>>
                             ELSE <<>>))
    IN [i \in 1..Len(ps) |->
            Script("Construct", ps[i],
                   <<Stmt_Var(Token("g", 1700), Some(Number(0))),
                     Stmt_Class(Token("A", 1705), None,
                                IF ps[i].init = "none" THEN <<>> ELSE <<init(ps[i])>>)>>
                   \o (IF ps[i].init = "inherited"
                       THEN <<Stmt_Class(Token("B", 1706), Some(Token("A", 1707)), <<>>)>>
                       ELSE <<>>)
                   \o <<Stmt_Var(Token("o", 1708),
                                 Some(Expr_Call(Var(IF ps[i].init = "inherited"
                                                    THEN "B" ELSE "A", 1709),
                                                [j \in 1..ps[i].args |-> Number(10 + j)]))),
                        Stmt_Print(Var("g", 1750))>>)]

\* Reading a method twice: with block, the script is one block; with field,
\* the instance has a field x before the reads:
\*   class K { m() {} } var o = K(); o.x = 7; var a = o.m; var b = o.m;
BoundScripts ==
    LET ps == SetToSeq([field : BOOLEAN, block : BOOLEAN])
        statements(p) ==
            <<Stmt_Class(Token("K", 1800), None,
                         <<FunctionStmt(Token("m", 1801), <<>>, <<>>)>>),
              Stmt_Var(Token("o", 1802), Some(Expr_Call(Var("K", 1803), <<>>)))>>
            \o (IF p.field
                THEN <<Stmt_Expression(Expr_Set(Var("o", 1804), Token("x", 1805),
                                                Number(7)))>>
                ELSE <<>>)
            \o <<Stmt_Var(Token("a", 1806),
                          Some(Expr_Get(Var("o", 1807), Token("m", 1808)))),
                 Stmt_Var(Token("b", 1809),
                          Some(Expr_Get(Var("o", 1810), Token("m", 1811))))>>
    IN [i \in 1..Len(ps) |->
            Script("Bound", ps[i],
                   IF ps[i].block THEN <<Stmt_Block(statements(ps[i]))>>
                   ELSE statements(ps[i]))]

\* Reading a property that is no field and no method, with ClassInstance of
\* either snapshot; with field, o has the field x:
\*   class K { m() {} } var o = K(); o.x = 7; print o.y; print 1;
MissingScripts ==
    LET ps == SetToSeq([build : {"value/class.rs", "value.rs"}, field : BOOLEAN])
    IN [i \in 1..Len(ps) |->
            Script("Missing", ps[i],
                   <<Stmt_Class(Token("K", 1900), None,
                                <<FunctionStmt(Token("m", 1901), <<>>, <<>>)>>),
                     Stmt_Var(Token("o", 1902), Some(Expr_Call(Var("K", 1903), <<>>)))>>
                   \o (IF ps[i].field
                       THEN <<Stmt_Expression(Expr_Set(Var("o", 1904), Token("x", 1905),
                                                       Number(7)))>>
                       ELSE <<>>)
                   \o <<Stmt_Print(Expr_Get(Var("o", 1906), Token("y", 1907))),
                        Stmt_Print(Number(1))>>)]

\* `and` and `or` over operands that count how often they are evaluated:
\*   var n = 0; var m = 0; var r;
\*   fun left() { n = n + 1; return <left>; }
\*   fun right() { m = m + 1; return <right>; }
\*   r = left() <operator> right();
LogicValues == {Nil, Bool(FALSE), Bool(TRUE), Float(0), Str("")}

LogicScripts ==
    LET ps == SetToSeq([operator : {"And", "Or"}, left : LogicValues,
                        right : LogicValues \ {Bool(FALSE)}])
        counting(name, id, counter, value) ==
            Stmt_Function(FunctionStmt(Token(name, id), <<>>,
                <<Stmt_Expression(
                      Expr_Assign(Token(counter, id + 1),
                                  Expr_Binary(Var(counter, id + 2), "Plus", Number(1)))),
                  Stmt_Return(Some(Expr_Literal(value)))>>))
    IN [i \in 1..Len(ps) |->
            Script("Logic", ps[i],
                   <<Stmt_Var(Token("n", 2000), Some(Number(0))),
                     Stmt_Var(Token("m", 2001), Some(Number(0))),
                     Stmt_Var(Token("r", 2002), None),
                     counting("left", 2010, "n", ps[i].left),
                     counting("right", 2020, "m", ps[i].right),
                     Stmt_Expression(
                         Expr_Assign(Token("r", 2003),
                             Expr_Logical(Expr_Call(Var("left", 2004), <<>>),
                                          ps[i].operator,
                                          Expr_Call(Var("right", 2005), <<>>))))>>)]

\* `==` and `!=` over two operands, each a literal or one of the globals that
\* the script starts with:
\*   fun make(v) { fun c() { return v; } return c; }
\*   fun g() {}
\*   class K {}  class J {}
\*   var f1 = make(1); var f2 = make(2);
\*   var o1 = K(); var o2 = K(); var o3 = J();
\*   var o4 = K(); o4.x = 1; var o5 = K(); o5.x = 1; var o6 = K(); o6.x = 2;
\*   var o7 = K(); o7.x = 1; o7.s = o7; var o8 = K(); o8.x = 2; o8.s = o7;
\*   var r; var s;
\*   r = <left> == <right>;
\*   s = <left> != <right>;
EqualOperand(on, name, value) == [on |-> on, name |-> name, v |-> value]

EqualOperands ==
    {EqualOperand("literal", "", v) :
        v \in {Nil, Bool(FALSE), Bool(TRUE), Float(0), Float(1), Str(""), Str("0")}}
    \cup {EqualOperand("function", n, Nil) : n \in {"clock", "g", "f1", "f2"}}
    \cup {EqualOperand("class", n, Nil) : n \in {"K", "J"}}
    \cup {EqualOperand("instance", n, Nil) :
            n \in {"o1", "o2", "o3", "o4", "o5", "o6", "o7", "o8"}}

EqualScripts ==
    LET operands == SetToSeq(EqualOperands)
        n == Len(operands)
        ps == [i \in 1..(n * n) |-> [left |-> operands[((i - 1) \div n) + 1],
                                     right |-> operands[((i - 1) % n) + 1]]]
        operand_at(o, id) == IF o.on = "literal" THEN Expr_Literal(o.v) ELSE Var(o.name, id)
        var(name, id, callee, args) ==
            Stmt_Var(Token(name, id), Some(Expr_Call(Var(callee, id + 1), args)))
        set(name, id, field, value) ==
            Stmt_Expression(Expr_Set(Var(name, id), Token(field, id + 1), value))
        compare(name, id, operator, p) ==
            Stmt_Expression(
                Expr_Assign(Token(name, id),
                            Expr_Binary(operand_at(p.left, id + 1), operator,
                                        operand_at(p.right, id + 2))))
    IN [i \in 1..Len(ps) |->
            Script("Equal", ps[i],
                   <<Stmt_Function(FunctionStmt(Token("make", 2100), <<Token("v", 2101)>>,
                         <<Stmt_Function(FunctionStmt(Token("c", 2102), <<>>,
                               <<Stmt_Return(Some(Var("v", 2103)))>>)),
                           Stmt_Return(Some(Var("c", 2104)))>>)),
                     Stmt_Function(FunctionStmt(Token("g", 2105), <<>>, <<>>)),
                     Stmt_Class(Token("K", 2106), None, <<>>),
                     Stmt_Class(Token("J", 2107), None, <<>>),
                     var("f1", 2110, "make", <<Number(1)>>),
                     var("f2", 2112, "make", <<Number(2)>>),
                     var("o1", 2120, "K", <<>>),
                     var("o2", 2122, "K", <<>>),
                     var("o3", 2124, "J", <<>>),
                     var("o4", 2126, "K", <<>>),
                     set("o4", 2128, "x", Number(1)),
                     var("o5", 2130, "K", <<>>),
                     set("o5", 2132, "x", Number(1)),
                     var("o6", 2134, "K", <<>>),
                     set("o6", 2136, "x", Number(2)),
                     var("o7", 2138, "K", <<>>),
                     set("o7", 2140, "x", Number(1)),
                     set("o7", 2142, "s", Var("o7", 2144)),
                     var("o8", 2146, "K", <<>>),
                     set("o8", 2148, "x", Number(2)),
                     set("o8", 2150, "s", Var("o7", 2152)),
                     Stmt_Var(Token("r", 2160), None),
                     Stmt_Var(Token("s", 2161), None),
                     compare("r", 2170, "EqualEqual", ps[i]),
                     compare("s", 2180, "BangEqual", ps[i])>>)]

\* An assignment to x that has no side-table entry, at a place, with x
\* defined as a global before it or not, and a read of x after it:
\*   top        [var x = 0;] print x = <value>; print x;
\*   block      [var x = 0;] { print x = <value>; } print x;
\*   function   [var x = 0;] fun f() { print x = <value>; } f(); print x;
UnboundScripts ==
    LET ps == SetToSeq([place : {"top", "block", "function"}, defined : BOOLEAN,
                        value : {Nil, Float(1), Str("v")}])
        assignment(p) ==
            Stmt_Print(Expr_Assign(Token("x", 2200), Expr_Literal(p.value)))
    IN [i \in 1..Len(ps) |->
            Script("Unbound", ps[i],
                   (IF ps[i].defined
                    THEN <<Stmt_Var(Token("x", 2201), Some(Number(0)))>>
                    ELSE <<>>)
                   \o (CASE ps[i].place = "top" -> <<assignment(ps[i])>>
                         [] ps[i].place = "block" -> <<Stmt_Block(<<assignment(ps[i])>>)>>
                         [] ps[i].place = "function" ->
                               <<Stmt_Function(FunctionStmt(Token("f", 2202), <<>>,
                                                            <<assignment(ps[i])>>)),
                                 CallStmt(Var("f", 2203), <<>>)>>)
                   \o <<Stmt_Print(Var("x", 2204))>>)]

Programs ==
    UnboundScripts \o EqualScripts \o LogicScripts \o MissingScripts \o BoundScripts \o ConstructScripts \o InvokeScripts \o ContextScripts \o ReturnPlaceScripts \o LateScripts \o RestoreScripts \o FramesScripts \o OperandsScripts \o LineScripts \o HaltScripts \o ShadowScripts \o CounterScripts \o SelfInitScripts \o DupScripts \o ArityScripts
    \o ClassChainScripts \o SuperScripts \o PropShadowScripts \o ResolverErrorScripts
    \o ReturnScripts

(***************************************************************************)
(* environment.rs on its own: any sequence of child, define, assign,       *)
(* assign_at and get_at on a chain of at most MaxFrames environments, each *)
(* of which can be the receiver.  The name a is defined as 0 and assigned  *)
(* 1 and read, the name b is only defined.                                 *)
(***************************************************************************)
MaxFrames == 3

\* What the last call gave: which call it was, whether it panicked, and the
\* Option it returned.
Returned(which, panic, value) == [call |-> which, panic |-> panic, value |-> value]

no_call == Returned("none", FALSE, None)

\* The newest environment gets a child.
Child ==
    /\ Len(environments) < MaxFrames
    /\ environments' = Environment_child(environments, Len(environments))
    /\ returned' = no_call
    /\ UNCHANGED <<run_vars, resolver, vm>>

Define ==
    /\ \E env \in 1..Len(environments), name \in {"a", "b"} :
          environments' = Environment_define(environments, env, name, Float(0))
    /\ returned' = no_call
    /\ UNCHANGED <<run_vars, resolver, vm>>

\* env.assign("a", 1)
assign(env) ==
    /\ environments' = Environment_assign(environments, env, "a", Float(1))
    /\ returned' = Returned("assign", FALSE,
                            Environment_assign_returned(environments, env, "a"))

Assign ==
    /\ \E env \in 1..Len(environments) : assign(env)
    /\ UNCHANGED <<run_vars, resolver, vm>>

\* env.assign_at(distance, "a", 1)
assign_at(env, distance) ==
    \E r \in {Environment_assign_at(environments, env, distance, "a", Float(1))} :
        /\ environments' = r.envs
        /\ returned' = Returned("assign_at", r.panic, None)

AssignAt ==
    /\ \E env \in 1..Len(environments), distance \in 0..MaxFrames : assign_at(env, distance)
    /\ UNCHANGED <<run_vars, resolver, vm>>

\* env.get_at(distance, "a")
get_at(env, distance) ==
    \E r \in {Environment_get_at(environments, env, distance, "a")} :
        /\ returned' = Returned("get_at", r.panic, r.value)
        /\ UNCHANGED environments

GetAt ==
    /\ \E env \in 1..Len(environments), distance \in 0..MaxFrames : get_at(env, distance)
    /\ UNCHANGED <<run_vars, resolver, vm>>

EnvironmentNext == Child \/ Define \/ Assign \/ AssignAt \/ GetAt

(***************************************************************************)
(* bytecode_lox: value.rs, chunk.rs, compiler.rs and vm.rs                 *)
(*                                                                         *)
(* A Number (f64) is the fraction n / d in lowest terms with d > 0; the    *)
(* constants drawn are positive integers, so no division by zero occurs.   *)
(* An instruction is named by its OpCode; the operand byte of Constant is  *)
(* the index into chunk.constants, counted from 0 as in the code.          *)
(***************************************************************************)
MaxNumber == 3

Value_Nil == [t |-> "Nil"]
Value_Bool(x) == [t |-> "Bool", v |-> x]

RECURSIVE gcd(_, _)
gcd(a, b) == IF b = 0 THEN a ELSE gcd(b, a % b)

abs(n) == IF n < 0 THEN 0 - n ELSE n

\* The f64 that is n / d (d # 0).
Value_Number(n, d) ==
    LET g == gcd(abs(n), abs(d))
        sign == IF d < 0 THEN 0 - 1 ELSE 1
    IN [t |-> "Number", n |-> sign * (n \div g), d |-> sign * (d \div g)]

\* a $op b of binary_op!, with its wrap (Number or Bool).
f64_op(opcode, a, b) ==
    CASE opcode = "Add" -> Value_Number(a.n * b.d + b.n * a.d, a.d * b.d)
      [] opcode = "Subtract" -> Value_Number(a.n * b.d - b.n * a.d, a.d * b.d)
      [] opcode = "Multiply" -> Value_Number(a.n * b.n, a.d * b.d)
      [] opcode = "Divide" -> Value_Number(a.n * b.d, a.d * b.n)
      [] opcode = "Greater" -> Value_Bool(a.n * b.d > b.n * a.d)
      [] opcode = "GreaterEqual" -> Value_Bool(a.n * b.d >= b.n * a.d)
      [] opcode = "Less" -> Value_Bool(a.n * b.d < b.n * a.d)
      [] opcode = "LessEqual" -> Value_Bool(a.n * b.d <= b.n * a.d)

Chunk_new == [code |-> <<>>, constants |-> <<>>]

Chunk_write(chunk, byte) == [chunk EXCEPT !.code = Append(@, byte)]

Chunk_add_constant(chunk, value) == [chunk EXCEPT !.constants = Append(@, value)]

\* make_constant, then the two bytes: the index is the length before the push.
emit_constant(chunk, value) ==
    Chunk_write(Chunk_write(Chunk_add_constant(chunk, value), "Constant"),
                Len(chunk.constants))

\* A token of the bytecode scanner: its kind, and the number its lexeme
\* parses to (0 for the other kinds).
VMToken(kind, number) == [kind |-> kind, number |-> number]

\* The prefix rules number and literal, on the token they see in previous.
prefix_rule(chunk, previous) ==
    CASE previous.kind = "Nil" -> Chunk_write(chunk, "Nil")
      [] previous.kind = "True" -> Chunk_write(chunk, "True")
      [] previous.kind = "False" -> Chunk_write(chunk, "False")
      [] previous.kind = "Number" -> emit_constant(chunk, Value_Number(previous.number, 1))

\* binary's match on the operator, after the right operand is compiled.
binary_opcode(operator_kind) ==
    CASE operator_kind = "Greater" -> "Greater"
      [] operator_kind = "GreaterEqual" -> "GreaterEqual"
      [] operator_kind = "Less" -> "Less"
      [] operator_kind = "LessEqual" -> "LessEqual"
      [] operator_kind = "Plus" -> "Add"
      [] operator_kind = "Minus" -> "Subtract"
      [] operator_kind = "Star" -> "Multiply"
      [] operator_kind = "Slash" -> "Divide"

\* Compiler::compile of the source `left operator right`: the left operand,
\* the right operand, the operator's instruction, and end's Return.
Compiler_compile(source) ==
    Chunk_write(
        Chunk_write(prefix_rule(prefix_rule(Chunk_new, source.left), source.right),
                    binary_opcode(source.operator)),
        "Return")

\* result is None while run has not returned, then Some("Ok") or Some("Err").
VM_new(chunk) ==
    [chunk |-> chunk, ip |-> 0, stack |-> <<>>, out |-> <<>>, result |-> None]

push(v, value) == [v EXCEPT !.stack = Append(@, value)]

\* self.stack.pop().unwrap_or_default(): the value is at peek(0).
pop(v) ==
    IF v.stack = <<>> THEN v ELSE [v EXCEPT !.stack = SubSeq(@, 1, Len(@) - 1)]

peek(v, distance) == v.stack[Len(v.stack) - distance]

\* read_byte!(): the byte at ip (code is indexed from 1 here).
read_byte(v) == v.chunk.code[v.ip + 1]

\* binary_op!: match (self.peek(0), self.peek(1)) binds a to the top of the
\* stack and b to the value below it, and pushes a $op b.
binary_op(v, opcode) ==
    IF peek(v, 0).t = "Number" /\ peek(v, 1).t = "Number"
    THEN push(pop(pop(v)), f64_op(opcode, peek(v, 0), peek(v, 1)))
    ELSE [v EXCEPT !.result = Some("Err")]

\* The sources compiled: `left operator right` over a few operands.
Operands ==
    {VMToken("Number", n) : n \in 1..MaxNumber} \cup {VMToken("Nil", 0), VMToken("True", 0)}
BinaryOperatorKinds ==
    {"Greater", "GreaterEqual", "Less", "LessEqual", "Plus", "Minus", "Star", "Slash"}

\* VM::interpret: compile, VM::new; run follows.
VM_interpret ==
    /\ vm.chunk = Chunk_new
    /\ \E left \in Operands, right \in Operands, operator \in BinaryOperatorKinds :
          vm' = VM_new(Compiler_compile([left |-> left, operator |-> operator,
                                         right |-> right]))
    /\ UNCHANGED <<run_vars, resolver, environment_vars>>

\* run has an instruction to read.
running == vm.chunk # Chunk_new /\ vm.result = None

\* OpCode::Constant
OpConstant ==
    /\ running
    /\ read_byte(vm) = "Constant"
    /\ vm' = push([vm EXCEPT !.ip = @ + 2], vm.chunk.constants[vm.chunk.code[vm.ip + 2] + 1])
    /\ UNCHANGED <<run_vars, resolver, environment_vars>>

\* OpCode::Nil, OpCode::False, OpCode::True
OpLiteral ==
    /\ running
    /\ read_byte(vm) \in {"Nil", "False", "True"}
    /\ vm' = push([vm EXCEPT !.ip = @ + 1],
                  CASE read_byte(vm) = "Nil" -> Value_Nil
                    [] read_byte(vm) = "False" -> Value_Bool(FALSE)
                    [] read_byte(vm) = "True" -> Value_Bool(TRUE))
    /\ UNCHANGED <<run_vars, resolver, environment_vars>>

\* The arms that are binary_op!(..)
OpBinary ==
    /\ running
    /\ read_byte(vm) \in {binary_opcode(k) : k \in BinaryOperatorKinds}
    /\ vm' = binary_op([vm EXCEPT !.ip = @ + 1], read_byte(vm))
    /\ UNCHANGED <<run_vars, resolver, environment_vars>>

\* OpCode::Return: println!("{}", self.pop()); return Ok(())
OpReturn ==
    /\ running
    /\ read_byte(vm) = "Return"
    /\ vm' = [pop([vm EXCEPT !.ip = @ + 1])
                EXCEPT !.out = Append(@, peek(vm, 0)), !.result = Some("Ok")]
    /\ UNCHANGED <<run_vars, resolver, environment_vars>>

VMNext == VM_interpret \/ OpConstant \/ OpLiteral \/ OpBinary \/ OpReturn

(***************************************************************************)
(* main.rs: Lox::run on one script                                         *)
(***************************************************************************)
Init ==
    /\ pc = "start"
    /\ prog = 0
    /\ locals = <<>>
    /\ heap = Interpreter_new
    /\ idx = 1
    /\ failure = None
    /\ rpanic = ""
    /\ lines = <<>>
    /\ build = "value/class.rs"
    /\ std = Std("deadlock", "unequal")
    /\ resolver = Resolver_new
    /\ environments = Environment_new(<<>>)
    /\ returned = no_call
    /\ vm = VM_new(Chunk_new)

\* The snapshot of ClassInstance a script is run with: the Missing scripts
\* are run with either, the others with value/class.rs.
built_with(s) == IF s.family = "Missing" THEN s.p.build ELSE "value/class.rs"

\* What the standard library leaves open, for the scripts that get there
\* (the Equal scripts that compare two instances): what Mutex::lock does in
\* a thread that holds the lock, and which entry HashMap's comparison visits
\* first.
run_on(s) ==
    IF s.family = "Equal" /\ s.p.left.on = "instance" /\ s.p.right.on = "instance"
    THEN {Std(relock, first) : relock \in {"panic", "deadlock"},
                               first \in {"unequal", "held"}}
    ELSE {Std("deadlock", "unequal")}

\* run: the script is scanned and parsed, and the interpreter is made.
Run ==
    /\ pc = "start"
    /\ \E i \in 1..Len(Programs) :
          /\ prog' = i
          /\ build' = built_with(Programs[i])
          /\ std' \in run_on(Programs[i])
    /\ pc' = "resolve"
    /\ heap' = Interpreter_new
    /\ locals' = <<>>
    /\ idx' = 1
    /\ UNCHANGED <<failure, rpanic, lines, resolver, environment_vars, vm>>

\* run_prompt: a line is read and run; after it, whether it failed or not,
\* the next one is.  run makes its interpreter for every line.
RunPrompt ==
    /\ \/ pc = "start" /\ lines = <<>>
       \/ pc = "done" /\ lines # <<>>
    /\ Len(lines) < MaxLines
    /\ \E i \in 1..Len(Programs) :
          /\ Programs[i].family = "Line"
          /\ prog' = i
          /\ lines' = Append(lines, i)
    /\ pc' = "resolve"
    /\ heap' = Interpreter_new
    /\ locals' = <<>>
    /\ idx' = 1
    /\ failure' = None
    /\ build' = "value/class.rs"
    /\ std' = Std("deadlock", "unequal")
    /\ resolver' = Resolver_new
    /\ UNCHANGED <<rpanic, environment_vars, vm>>

\* run that goes on to interpret whatever the resolver did.
interpret_anyway(rs) == "interpret"

\* What run does after resolver.resolve: a panic of the resolver ends the
\* process, otherwise interpret is called.
after_resolve(rs) == IF rs.panic # "" THEN "panic" ELSE "interpret"

\* resolver.resolve(&statements)
Resolve ==
    /\ pc = "resolve"
    /\ \E rs \in {resolve(Resolver_new, Programs[prog].statements)} :
          /\ pc' = after_resolve(rs)
          /\ rpanic' = rs.panic
          /\ locals' = rs.locals
          /\ resolver' = rs
    /\ UNCHANGED <<prog, heap, idx, failure, lines, build, std, environment_vars, vm>>

\* The loop that reports the error and goes on with the next statement.
interpret_loop_going_on(k, i) ==
    CASE k = "Panic" -> [pc |-> "panic", idx |-> i]
      [] k = "Blocked" -> [pc |-> "blocked", idx |-> i]
      [] OTHER -> [pc |-> "interpret", idx |-> i + 1]

\* interpret's loop after statement i, executed with outcome k: the next
\* statement, or the break at the error (the abort at a panic).
interpret_loop(k, i) ==
    CASE k = "Ok" -> [pc |-> "interpret", idx |-> i + 1]
      [] k = "Err" -> [pc |-> "done", idx |-> i]
      [] k = "Panic" -> [pc |-> "panic", idx |-> i]
      [] k = "Blocked" -> [pc |-> "blocked", idx |-> i]

\* interpret: one turn of its loop.
InterpretStatement ==
    /\ pc = "interpret"
    /\ idx <= Len(Programs[prog].statements)
    /\ \E r \in {execute(heap, Programs[prog].statements[idx])} :
          /\ heap' = r.st
          /\ pc' = interpret_loop(r.k, idx).pc
          /\ idx' = interpret_loop(r.k, idx).idx
          /\ failure' = IF r.k = "Err" THEN Some(r.e) ELSE failure
    /\ UNCHANGED <<prog, locals, rpanic, lines, build, std, resolver, environment_vars, vm>>

\* interpret: the loop ends with the statements.
InterpretReturn ==
    /\ pc = "interpret"
    /\ idx > Len(Programs[prog].statements)
    /\ pc' = "done"
    /\ UNCHANGED <<prog, locals, heap, idx, failure, rpanic, lines, build, std,
                   resolver, environment_vars, vm>>

Next == Run \/ RunPrompt \/ Resolve \/ InterpretStatement \/ InterpretReturn

Spec == Init /\ [][Next]_vars

\* Calls on environments, in any order.
EnvironmentSpec == Init /\ [][EnvironmentNext]_vars

\* bytecode_lox's main: VM::interpret on one source.
VMSpec == Init /\ [][VMNext]_vars

(***************************************************************************)
(* Properties                                                              *)
(***************************************************************************)
script == Programs[prog]
resolved == pc \in {"interpret", "done"}

RECURSIVE Max(_)
Max(S) == LET x == CHOOSE y \in S : TRUE
          IN IF S = {x} THEN x ELSE LET m == Max(S \ {x}) IN IF x > m THEN x ELSE m

\* C1: when the name is declared in several enclosing local scopes, the
\* reference is recorded with the distance to the innermost scope that
\* declares it (depth of the reference's scope minus depth of that scope), and
\* the read yields the value of that nearest declaration.
C1_NearestDeclaration ==
    (resolved /\ script.family = "Shadow" /\ script.p.decl # {}) =>
        /\ 99 \in DOMAIN locals
        /\ locals[99] = script.p.depth - Max(script.p.decl)
        /\ pc = "done" =>
              /\ Len(heap.out) = 1
              /\ heap.out[1].text = Max(script.p.decl)

\* C2: the n-th call of the closure c yields n: every call sees the
\* assignments to the captured variable i made by the calls before it, after
\* makeCounter's body has finished.
C2_CounterCounts ==
    (resolved /\ script.family = "Counter") =>
        /\ \A n \in 1..Len(heap.out) :
              heap.out[n].t = "Float" /\ heap.out[n].text = n
        /\ pc = "done" => failure = None /\ Len(heap.out) = script.p.calls

C2_Witness ==
    /\ pc = "done"
    /\ script.family = "Counter"
    /\ script.p.calls >= 2
    /\ Len(heap.out) = script.p.calls
    /\ heap.environment = heap.globals

\* A script is rejected when the resolver panicked with this message.
rejected(msg) == pc = "panic" /\ rpanic = msg

OwnInitializer == "Can't read local variable in its own initializer."
AlreadyDeclared == "Already variable with this name in this scope."

\* C3: in a local scope, `var a = a + 1;` is rejected whether or not an
\* outer scope (a block or the top level) declares a as well, and the same
\* declaration reading another name is not.
C3_OwnInitializerRejected ==
    (pc \notin {"start", "resolve"} /\ script.family = "SelfInit") =>
        IF script.p.read = "a" THEN rejected(OwnInitializer) ELSE rpanic = ""

C3_Witness ==
    /\ rejected(OwnInitializer)
    /\ script.family = "SelfInit"
    /\ script.p.read = "a"
    /\ script.p.global
    /\ script.p.decl # {}

\* C4 as stated: in every scope, the top level included, a second
\* declaration of a name of that scope is rejected, and shadowing is not.
C4_DuplicateRejectedEverywhere ==
    (pc \notin {"start", "resolve"} /\ script.family = "Dup") =>
        IF script.p.what \in {"shadow", "param_shadow"}
        THEN rpanic = ""
        ELSE rejected(AlreadyDeclared)

\* C4: in every local scope (a block, a function's parameter-and-body scope)
\* a second declaration of a name of that scope is rejected; shadowing is
\* accepted, and so is a second declaration at the top level.
C4_DuplicateRejectedInLocalScopes ==
    (pc \notin {"start", "resolve"} /\ script.family = "Dup") =>
        IF \/ script.p.what \in {"param_param", "param_var"}
           \/ script.p.what \in {"var_var", "fun_fun", "class_class"} /\ script.p.depth > 0
        THEN rejected(AlreadyDeclared)
        ELSE rpanic = ""

C4_Witness ==
    /\ rejected(AlreadyDeclared)
    /\ script.family = "Dup"
    /\ script.p.what = "param_var"
    /\ script.p.depth > 0

\* The lines printed so far, as their texts.
printed == [i \in 1..Len(heap.out) |-> heap.out[i].text]

\* C5: a call with a number of arguments other than the callee's arity fails
\* with the arity error (expected, got) and nothing of the callee runs: nothing
\* is printed, no environment and no instance is made, and g keeps its value.
C5_ArityEnforced ==
    (resolved /\ script.family = "Arity" /\ script.p.args # script.p.params) =>
        /\ heap.out = <<>>
        /\ Len(heap.envs) = 1
        /\ heap.instances = <<>>
        /\ "g" \in DOMAIN heap.envs[1].values => heap.envs[1].values["g"] = Float(0)
        /\ pc = "done" =>
              /\ idx = 3
              /\ is_some(failure)
              /\ unwrap(failure).kind = "FunctionArity"
              /\ unwrap(failure).value = <<script.p.params, script.p.args>>

C5_Witness ==
    /\ pc = "done"
    /\ script.family = "Arity"
    /\ script.p.params = 0
    /\ script.p.args = 1
    /\ is_some(failure)
    /\ unwrap(failure).kind = "FunctionArity"

\* The classes of the chain, from class down to the root, that define m.
definers(class) == {j \in script.p.defs : j <= class}

\* C6: on every class of a chain, find_method yields the method of the
\* nearest class, from that class towards the root, that defines the name,
\* and nothing iff no class of the chain does; the call through an instance
\* runs that method, or fails with the undefined property.
C6_NearestMethod ==
    (resolved /\ script.family = "ClassChain") =>
        /\ \A c \in 1..Len(heap.classes) :
              \E found \in {ClassDefinition_find_method(heap.classes, c, "m")} :
                 /\ is_some(found) <=> definers(c) # {}
                 /\ is_some(found) =>
                       unwrap(found).declaration.name.id = 340 + Max(definers(c))
        /\ pc = "done" =>
              IF definers(script.p.start) = {}
              THEN /\ is_some(failure)
                   /\ unwrap(failure).kind = "UndefinedProperty"
                   /\ printed = <<>>
              ELSE /\ failure = None
                   /\ printed = <<Max(definers(script.p.start))>>

C6_Witness ==
    /\ pc = "done"
    /\ script.family = "ClassChain"
    /\ script.p.length = 3
    /\ script.p.start = 3
    /\ script.p.defs = {1, 2}
    /\ printed = <<2>>

\* C7: super.m() runs the m found from the superclass of the class the
\* method is written in, with this bound to the current instance: in the
\* chain the methods run from the instance's class up to A, whose this.n()
\* reaches the n of the instance's class; in the nested class D < X, super.m()
\* runs X's m.
C7_SuperDispatch ==
    (pc = "done" /\ script.family = "Super") =>
        /\ failure = None
        /\ printed = (IF script.p.nested THEN <<9>>
                      ELSE IF script.p.dynamic = 2 THEN <<2, 1, 12>>
                           ELSE <<3, 2, 1, 13>>)

\* C8: after a field named like a method of the class (or of its
\* superclass) is set on o, reading it on o yields the stored value; the set
\* writes o's own fields only, the method tables stay as declared, and q, an
\* instance of the same class, still gets the method.
C8_FieldShadowsMethod ==
    (resolved /\ script.family = "PropShadow") =>
        /\ \A c \in 1..Len(heap.classes) :
              DOMAIN heap.classes[c].methods = (IF c = 1 THEN {"f"} ELSE {})
        /\ pc = "done" =>
              /\ failure = None
              /\ Len(heap.out) = 2
              /\ heap.out[1].t = (IF ~script.p.set THEN "fun"
                                  ELSE IF script.p.value = "number" THEN "Float"
                                       ELSE "Nil")
              /\ heap.out[1].t = "Float" => heap.out[1].text = 5
              /\ heap.out[2].t = "Float" /\ heap.out[2].text = 1
              /\ DOMAIN heap.instances[1].fields = (IF script.p.set THEN {"f"} ELSE {})
              /\ DOMAIN heap.instances[2].fields = {}

C8_Witness ==
    /\ pc = "done"
    /\ script.family = "PropShadow"
    /\ script.p.set
    /\ script.p.inherited
    /\ script.p.value = "number"
    /\ heap.out[1].t = "Float"
    /\ "f" \in DOMAIN heap.instances[1].fields

\* C9: a script the resolver refuses is not interpreted at all: nothing is
\* printed, no global is defined or modified (the interpreter's objects stay
\* as Interpreter::new made them), and the refusal is the one of the script's
\* error.
C9_RefusedScriptsDoNotRun ==
    /\ rpanic # "" => pc = "panic" /\ heap = Interpreter_new /\ idx = 1
    /\ (pc \notin {"start", "resolve"} /\ script.family = "ResolverError") =>
          rejected(ResolverErrorMessage(script.p.error))

C9_Witness ==
    /\ pc = "panic"
    /\ script.family = "ResolverError"
    /\ script.p.error = "inherit_itself"
    /\ rpanic = ResolverErrorMessage("inherit_itself")
    /\ heap.out = <<>>
    /\ DOMAIN heap.envs[heap.globals].values = {"clock"}

\* What a Return script prints.
return_prints == IF script.p.callee = "nested" THEN <<7, 8, 1, 8>> ELSE <<7, 1, 8>>

\* C10: interpret never reports a Return-signal; in the Return scripts the
\* return is the result of the call of the function it is written in,
\* whatever blocks, loops and ifs it sits in, the rest of that body is not
\* run, and the caller goes on in its own environment.
C10_ReturnIsCaught ==
    /\ is_some(failure) => unwrap(failure).kind # "Return"
    /\ (resolved /\ script.family = "Return") =>
          /\ failure = None
          /\ heap.environment = heap.globals
          /\ Len(printed) <= Len(return_prints)
          /\ printed = SubSeq(return_prints, 1, Len(printed))
          /\ pc = "done" => printed = return_prints

C10_Witness ==
    /\ pc = "done"
    /\ script.family = "Return"
    /\ script.p.callee = "nested"
    /\ script.p.wrap = "while"
    /\ script.p.depth >= 2
    /\ printed = <<7, 8, 1, 8>>

\* The value of the global name (only where it is defined).
global(name) == heap.envs[heap.globals].values[name]

\* C11: the top-level statements run in order, each after the ones before
\* it; at the first one that fails interpret stops with that error: the
\* statements after it never run, and g keeps what the earlier statements and
\* the failing one up to its failure made of it.
C11_StopsAtFirstFailure ==
    (resolved /\ script.family = "Halt") =>
        /\ heap.environment = heap.globals
        /\ printed = [i \in 1..Len(printed) |-> i]
        /\ pc = "interpret" =>
              failure = None /\ Len(printed) = (IF idx = 1 THEN 0 ELSE idx - 2)
        /\ (pc = "interpret" /\ idx > 1) => global("g") = Float(idx - 2)
        /\ pc = "done" =>
              IF script.p.fail = 0
              THEN failure = None /\ Len(printed) = MaxStatements
                   /\ global("g") = Float(MaxStatements)
              ELSE /\ is_some(failure)
                   /\ unwrap(failure).kind = script.p.error
                   /\ idx = script.p.fail + 1
                   /\ Len(printed) = script.p.fail - 1
                   /\ global("g") = Float(script.p.fail - 1 + 100)

C11_Witness ==
    /\ pc = "done"
    /\ script.family = "Halt"
    /\ script.p.fail = 2
    /\ is_some(failure)
    /\ printed = <<1>>
    /\ global("g") = Float(101)

\* Whether a line read before the current one defines what the current one
\* reads.
defined_by_earlier_line ==
    /\ lines # <<>>
    /\ script.p.role = "read"
    /\ \E j \in 1..(Len(lines) - 1) :
          /\ Programs[lines[j]].p.role = "define"
          /\ Programs[lines[j]].p.what = script.p.what

\* C12: at the prompt, what a line defined in the global environment (a
\* variable, a function, a class; also when the line failed afterwards) is
\* there when a later line reads it: the read succeeds with the value.
C12_GlobalsCarriedOver ==
    (pc = "done" /\ defined_by_earlier_line) =>
        /\ failure = None
        /\ Len(heap.out) = 1
        /\ heap.out[1].t = (IF script.p.what = "class" THEN "class" ELSE "Float")

\* Whether the operator of an Operands script takes its operands.
operands_taken ==
    \/ script.p.left = "Float" /\ script.p.right = "Float"
    \/ script.p.op = "Plus" /\ script.p.left = "Str" /\ script.p.right = "Str"

\* What the script prints when it does: the operator on 6 and 3 (unary minus
\* on 3), or "ab" + "c".
operands_result ==
    IF script.p.left = "Str" THEN [t |-> "Str", text |-> <<"a", "b", "c">>]
    ELSE CASE script.p.op = "Plus" -> [t |-> "Float", text |-> 9]
           [] script.p.op = "Minus" -> [t |-> "Float", text |-> 3]
           [] script.p.op = "Slash" -> [t |-> "Float", text |-> 2]
           [] script.p.op = "Star" -> [t |-> "Float", text |-> 18]
           [] script.p.op = "UnaryMinus" -> [t |-> "Float", text |-> -3]
           [] script.p.op \in {"Greater", "GreaterEqual"} -> [t |-> "Bool", text |-> "true"]
           [] script.p.op \in {"Less", "LessEqual"} -> [t |-> "Bool", text |-> "false"]

\* C13: + yields the sum of two numbers or the concatenation, left then
\* right, of two strings; -, /, *, >, >=, <, <= yield a value for two numbers
\* and unary minus for a number; on every other combination of variants the
\* operator fails with an operand-type error and yields nothing.
C13_OperandTypes ==
    (pc = "done" /\ script.family = "Operands") =>
        IF operands_taken
        THEN /\ failure = None
             /\ Len(heap.out) = 1
             /\ heap.out[1].t = operands_result.t
             /\ heap.out[1].text = operands_result.text
        ELSE /\ heap.out = <<>>
             /\ is_some(failure)
             /\ unwrap(failure).kind =
                    (CASE script.p.op = "Plus" -> "OperandsMustBeNumbersOrStr"
                       [] script.p.op = "UnaryMinus" -> "UnaryMinusOperandMustBeNumber"
                       [] OTHER -> "OperandsMustBeNumbers")

C13_Witness ==
    /\ pc = "done"
    /\ script.family = "Operands"
    /\ script.p.op = "Plus"
    /\ script.p.left = "Str"
    /\ script.p.right = "Float"
    /\ is_some(failure)
    /\ unwrap(failure).kind = "OperandsMustBeNumbersOrStr"

\* C14: the frame an expression's distance reaches is the one its
\* declaration defined the name in.  In the Frames scripts every declaration
\* gives the name another value, so the prints tell the frames: the read and
\* the assignment reach the nearest enclosing declaration of a (the inner one
\* when there are two) with the distance counted from the expression's scope
\* to that declaration's, and this in B's method is B's instance.
C14_DistanceReachesDeclaringFrame ==
    (pc = "done" /\ script.family = "Frames") =>
        /\ failure = None
        /\ script.p.what \in {"read", "assign"} =>
              locals[1102] = (IF script.p.shadowed THEN 0 ELSE 1)
        /\ script.p.what = "this" => locals[1112] = 1
        /\ printed = (CASE script.p.what = "read" ->
                               <<IF script.p.shadowed THEN 2 ELSE 1>>
                        [] script.p.what = "assign" ->
                               <<3, IF script.p.shadowed THEN 1 ELSE 3>>
                        [] script.p.what = "this" -> <<2>>)

\* C15: between the top-level statements and when interpret has finished,
\* with or without a failure, the current environment is the global one:
\* every block and call left on the way, by its end, by an error or by a
\* return, put back the environment it was entered from; so a block goes on
\* reading its own variable after the blocks or the call inside it.
C15_EnvironmentRestored ==
    /\ resolved => heap.environment = heap.globals
    /\ (pc = "done" /\ script.family = "Restore") =>
          IF script.p.exit = "success"
          THEN failure = None /\ printed = <<1>>
          ELSE /\ is_some(failure)
               /\ unwrap(failure).kind = "UndefinedVariable"
               /\ printed = <<>>

C15_Witness ==
    /\ pc = "done"
    /\ script.family = "Restore"
    /\ script.p.exit = "error"
    /\ script.p.call
    /\ script.p.depth >= 2
    /\ is_some(failure)
    /\ Len(heap.envs) >= 5
    /\ heap.environment = heap.globals

\* C16: an expression with a distance uses the frame at that distance, one
\* without uses the global frame only, also where a local frame of the chain
\* binds the name: in the Late scripts f's a has no distance and the block's
\* own `print a` has distance 0, so f reads the global a (or fails when there
\* is none) and assigns to the global a (or to nothing), while the block's a
\* stays 1 and is what the block prints.
C16_NoDistanceMeansGlobal ==
    (pc = "done" /\ script.family = "Late") =>
        /\ 1302 \notin DOMAIN locals
        /\ locals[1305] = 0
        /\ \A e \in 2..Len(heap.envs) :
              "a" \in DOMAIN heap.envs[e].values => heap.envs[e].values["a"] = Float(1)
        /\ "a" \in DOMAIN heap.envs[heap.globals].values <=> script.p.global
        /\ script.p.global =>
              global("a") = Float(IF script.p.access = "assign" THEN 5 ELSE 0)
        /\ IF script.p.access = "assign" THEN failure = None /\ printed = <<1>>
           ELSE IF script.p.global THEN failure = None /\ printed = <<0, 1>>
                ELSE /\ is_some(failure)
                     /\ unwrap(failure).kind = "UndefinedVariable"
                     /\ printed = <<>>

C16_Witness ==
    /\ pc = "done"
    /\ script.family = "Late"
    /\ script.p.global
    /\ script.p.access = "assign"
    /\ global("a") = Float(5)
    /\ heap.envs[2].values["a"] = Float(1)
    /\ printed = <<1>>

\* C17: a return is refused iff it is outside every function (also after
\* one), or carries a value in init itself; `return;` in init, and any return
\* in a function declared inside init, in a function or in a method, is
\* accepted.
C17_ReturnLegality ==
    (pc \notin {"start", "resolve"} /\ script.family = "ReturnPlace") =>
        IF script.p.place \in {"top", "after_function"}
        THEN rejected("Can't return from top-level code.")
        ELSE IF script.p.place = "init" /\ script.p.value
             THEN rejected("Can't return a value from an initializer.")
             ELSE rpanic = ""

\* C18: `this` is refused iff it is not inside a class body; `super` is
\* refused iff it is not inside a class body or the innermost class around it
\* has no superclass; after a class declaration the context is the one before
\* it (no class at top level, the outer class inside a method).
C18_ClassContext ==
    (pc \notin {"start", "resolve"} /\ script.family = "Context") =>
        LET outside == script.p.place \in {"top", "function", "after_class", "after_subclass"}
            no_superclass ==
                script.p.place \in {"class", "function_in_class", "after_nested_subclass",
                                    "nested_class"}
        IN IF script.p.keyword = "this"
           THEN IF outside
                THEN rejected("Can't use 'this' outside of a class.")
                ELSE rpanic = ""
           ELSE IF outside
                THEN rejected("Can't use 'super' outside of a class.")
                ELSE IF no_superclass
                     THEN rejected("Can't use 'super' with no superclass.")
                     ELSE rpanic = ""

\* `super` after a subclass nested in a class without superclass has been
\* judged by the outer class's context
C18_Witness ==
    /\ pc \notin {"start", "resolve"}
    /\ script.family = "Context"
    /\ script.p.place = "after_nested_subclass"
    /\ script.p.keyword = "super"
    /\ rejected("Can't use 'super' with no superclass.")

\* The frame of the k-th invocation (k = 0 for the call in the inner block)
\* of an Invoke script, and the frame binding `this` for it: environments 1,
\* 2 and 3 are the globals, the declaring block and the calling block.
invocation_frame(k) == IF script.p.kind = "function" THEN 4 + k ELSE 5 + 2 * k
this_frame(k) == 4 + 2 * k

\* C19: each invocation runs in a frame of its own whose parent is the
\* function's closure (the declaring block for f, the frame binding `this`,
\* itself a child of the declaring block, for the method m) and not the
\* calling block or the caller's frame; the frame binds each parameter to its
\* argument, so on the way back every frame still holds its own n, a and
\* seen; the invocation that ends without return gives nil.
C19_CallFrames ==
    (pc = "done" /\ script.family = "Invoke") =>
        /\ failure = None
        /\ Len(heap.envs) = invocation_frame(script.p.depth)
        /\ \A k \in 0..script.p.depth :
              /\ heap.envs[invocation_frame(k)].values =
                    [name \in {"n", "a", "seen"} |->
                        IF name = "a" THEN Float(7 + k) ELSE Float(script.p.depth - k)]
              /\ IF script.p.kind = "function"
                 THEN heap.envs[invocation_frame(k)].enclosing = 2
                 ELSE /\ heap.envs[invocation_frame(k)].enclosing = this_frame(k)
                      /\ heap.envs[this_frame(k)] =
                            [values |-> [name \in {"this"} |-> Instance(1)],
                             enclosing |-> 2]
        /\ heap.envs[3].values = [name \in {"n"} |-> Float(99)]
        /\ heap.environment = heap.globals
        /\ Len(heap.out) = 1
        /\ heap.out[1].t = "Nil"

\* a method has called itself twice and everything has returned
C19_Witness ==
    /\ pc = "done"
    /\ script.family = "Invoke"
    /\ script.p.kind = "method"
    /\ script.p.depth = 2
    /\ Len(heap.envs) = 9
    /\ heap.envs[9].values["n"] = Float(0)
    /\ heap.envs[5].values["n"] = Float(2)
    /\ Len(heap.out) = 1

\* The class a Construct script calls (A is class 1, B class 2), and the
\* parameters of the init it finds.
constructed == IF script.p.init = "inherited" THEN 2 ELSE 1
init_params == {ParamNames[j] : j \in 1..script.p.params}

\* The environments a Construct script has before the class is called: the
\* globals and, below class B, the frame that holds `super`.
declared_frames == IF script.p.init = "inherited" THEN 2 ELSE 1

declaring_frame == IF script.p.block THEN 2 ELSE 1

\* C21: each read of o.m makes one frame whose parent is m's closure (the
\* frame K is declared in) and that binds `this` to o and nothing else, and
\* gives a function over that frame; a and b are functions of the same
\* declaration over two frames; the fields of o and the method table of K
\* are what they were before the reads.
C21_MethodBoundOnEveryGet ==
    (pc = "done" /\ script.family = "Bound") =>
        /\ failure = None
        /\ Len(heap.envs) = declaring_frame + 2
        /\ \A e \in {declaring_frame + 1, declaring_frame + 2} :
              /\ heap.envs[e].enclosing = declaring_frame
              /\ DOMAIN heap.envs[e].values = {"this"}
              /\ heap.envs[e].values["this"] = Instance(1)
        /\ LET a == heap.envs[declaring_frame].values["a"]
               b == heap.envs[declaring_frame].values["b"]
               m == heap.classes[1].methods["m"]
           IN /\ a.t = "UserFunction"
              /\ b.t = "UserFunction"
              /\ a.closure = declaring_frame + 1
              /\ b.closure = declaring_frame + 2
              /\ a.declaration = m.declaration
              /\ b.declaration = m.declaration
              /\ m.closure = declaring_frame
        /\ DOMAIN heap.classes[1].methods = {"m"}
        /\ "this" \notin DOMAIN heap.envs[declaring_frame].values
        /\ Len(heap.instances) = 1
        /\ DOMAIN heap.instances[1].fields = IF script.p.field THEN {"x"} ELSE {}
        /\ script.p.field => heap.instances[1].fields["x"] = Float(7)

\* m has been read twice from an instance that has a field, inside a block
C21_Witness ==
    /\ pc = "done"
    /\ script.family = "Bound"
    /\ script.p.block
    /\ script.p.field
    /\ Len(heap.envs) = 4
    /\ heap.envs[2].values["a"].closure = 3
    /\ heap.envs[2].values["b"].closure = 4

\* C22: reading o.y, which is no field of o and no method of K, ends the
\* run with the error UndefinedProperty(y) and with no panic: nothing is
\* printed, and o's fields are what they were.
C22_UndefinedPropertyIsAnError ==
    (pc \notin {"start", "resolve"} /\ script.family = "Missing") =>
        /\ pc # "panic"
        /\ pc = "done" =>
              /\ is_some(failure)
              /\ unwrap(failure).kind = "UndefinedProperty"
              /\ unwrap(failure).value = "y"
              /\ heap.out = <<>>
              /\ DOMAIN heap.instances[1].fields = IF script.p.field THEN {"x"} ELSE {}

\* The frame k parents above env (env itself for k = 0), 0 when the chain
\* is shorter; the nearest frame from env upwards that has name, 0 when none
\* has.
RECURSIVE parent_at(_, _, _)
parent_at(envs, env, k) ==
    IF env = 0 \/ k = 0 THEN env ELSE parent_at(envs, envs[env].enclosing, k - 1)

RECURSIVE owner(_, _, _)
owner(envs, env, name) ==
    IF env = 0 THEN 0
    ELSE IF name \in DOMAIN envs[env].values THEN env
         ELSE owner(envs, envs[env].enclosing, name)

\* Between this state and the next, the frames are the same but for the
\* binding of name in frame f, which is now value (made if f had none).
only_binding_changed(f, name, value) ==
    /\ Len(environments') = Len(environments)
    /\ \A g \in 1..Len(environments) :
          /\ environments'[g].enclosing = environments[g].enclosing
          /\ DOMAIN environments'[g].values =
                DOMAIN environments[g].values \cup (IF g = f THEN {name} ELSE {})
          /\ \A n \in DOMAIN environments'[g].values :
                environments'[g].values[n] =
                    IF g = f /\ n = name THEN value ELSE environments[g].values[n]

assigned_in_nearest_owner(env) ==
    LET f == owner(environments, env, "a")
    IN IF f = 0
       THEN environments' = environments /\ returned'.value = None
       ELSE /\ only_binding_changed(f, "a", Float(1))
            /\ "a" \in DOMAIN environments[f].values
            /\ is_some(returned'.value)

\* C23: assign changes the binding of the name in the nearest frame, from
\* the receiver upwards, that has the name, and nothing else in any frame,
\* and returns Some; when no frame of the chain has the name it returns None
\* and every frame is as before.
C23_AssignNearestOwner ==
    [][returned'.call = "assign" =>
          \A env \in 1..Len(environments) :
              assign(env) => assigned_in_nearest_owner(env)]_vars

\* an assign has just replaced a 0 in a frame that lies between a frame
\* without a and a frame whose a is still 0
C23_Witness ==
    /\ returned.call = "assign"
    /\ returned.value = Some(Float(0))
    /\ \E e \in 1..Len(environments) :
          /\ "a" \notin DOMAIN environments[e].values
          /\ parent_at(environments, e, 2) # 0
          /\ "a" \in DOMAIN environments[parent_at(environments, e, 1)].values
          /\ environments[parent_at(environments, e, 1)].values["a"] = Float(1)
          /\ "a" \in DOMAIN environments[parent_at(environments, e, 2)].values
          /\ environments[parent_at(environments, e, 2)].values["a"] = Float(0)

got_at_exact_distance(env, distance) ==
    LET f == parent_at(environments, env, distance)
        name == "a"
    IN /\ environments' = environments
       /\ IF f = 0 THEN returned'.panic
          ELSE /\ ~returned'.panic
               /\ returned'.value = IF name \in DOMAIN environments[f].values
                                    THEN Some(environments[f].values[name])
                                    ELSE None

assigned_at_exact_distance(env, distance) ==
    LET f == parent_at(environments, env, distance)
    IN IF f = 0 THEN returned'.panic /\ environments' = environments
       ELSE ~returned'.panic /\ only_binding_changed(f, "a", Float(1))

\* C24: get_at gives what the frame exactly `distance` parents above the
\* receiver has for the name (None when it has nothing, whatever the other
\* frames have) and changes nothing; assign_at writes the binding in that
\* frame and changes no other binding; both fail when the chain has fewer
\* than `distance` parents.
C24_ExactDistance ==
    [][/\ returned'.call = "assign_at" =>
             \A env \in 1..Len(environments), distance \in 0..MaxFrames :
                 assign_at(env, distance) => assigned_at_exact_distance(env, distance)
       /\ returned'.call = "get_at" =>
             \A env \in 1..Len(environments), distance \in 0..MaxFrames :
                 get_at(env, distance) => got_at_exact_distance(env, distance)]_vars

\* a get_at has just given 1 where a chain has a = 0 in the receiver, 1 in
\* its parent and 0 in the frame above
C24_Witness ==
    /\ returned.call = "get_at"
    /\ ~returned.panic
    /\ returned.value = Some(Float(1))
    /\ \E e \in 1..Len(environments) :
          /\ parent_at(environments, e, 2) # 0
          /\ \A k \in 0..2 :
                /\ "a" \in DOMAIN environments[parent_at(environments, e, k)].values
                /\ environments[parent_at(environments, e, k)].values["a"] =
                      Float(IF k = 1 THEN 1 ELSE 0)

\* C25: `a or b` is a when a is truthy and `a and b` is a when a is falsey,
\* and then b is not evaluated (its counter m stays 0); otherwise the result
\* is b and b is evaluated once.  a is evaluated once either way (n is 1), and
\* the result is the operand's value, whatever its type.
C25_ShortCircuit ==
    (pc = "done" /\ script.family = "Logic") =>
        LET p == script.p
            left_decides ==
                IF p.operator = "Or"
                THEN p.left \notin {Nil, Bool(FALSE)}
                ELSE p.left \in {Nil, Bool(FALSE)}
        IN /\ failure = None
           /\ global("n") = Float(1)
           /\ global("m") = Float(IF left_decides THEN 0 ELSE 1)
           /\ global("r") = IF left_decides THEN p.left ELSE p.right

\* `0 or true` has given 0 without evaluating the right operand
C25_Witness ==
    /\ pc = "done"
    /\ script.family = "Logic"
    /\ script.p = [operator |-> "Or", left |-> Float(0), right |-> Bool(TRUE)]
    /\ global("r") = Float(0)
    /\ global("m") = Float(0)

\* The value of an operand of an Equal script.
operand_value(o) == IF o.on = "literal" THEN o.v ELSE global(o.name)

Scalars == {"Nil", "Bool", "Float", "Str"}

\* Whether two maps from names to values agree on the names both bind to
\* numbers, strings, booleans or nil.
scalars_agree(values, others) ==
    \A n \in DOMAIN values \cap DOMAIN others :
        (values[n].t \in Scalars /\ others[n].t \in Scalars) => values[n] = others[n]

\* What structurally equal contents require of two values of one variant:
\* the same value; for functions the same declaration over closures whose
\* frames agree; for classes the same name, superclass and methods; for
\* instances equal classes and fields.
same_contents(a, b) ==
    CASE a.t \in Scalars \cup {"BuiltInFunction"} -> a = b
      [] a.t = "UserFunction" ->
            /\ a.declaration = b.declaration
            /\ scalars_agree(heap.envs[a.closure].values, heap.envs[b.closure].values)
      [] a.t = "Class" -> heap.classes[a.class] = heap.classes[b.class]
      [] a.t = "Instance" ->
            /\ heap.classes[heap.instances[a.instance].class]
                 = heap.classes[heap.instances[b.instance].class]
            /\ DOMAIN heap.instances[a.instance].fields
                 = DOMAIN heap.instances[b.instance].fields
            /\ scalars_agree(heap.instances[a.instance].fields,
                             heap.instances[b.instance].fields)

\* C26: `==` gives true only for two values of one variant with structurally
\* equal contents, and false for values of two variants; `!=` gives the
\* negation of what `==` gives; neither fails with an error.
C26_StructuralEquality ==
    (pc = "done" /\ script.family = "Equal") =>
        LET a == operand_value(script.p.left)
            b == operand_value(script.p.right)
        IN /\ failure = None
           /\ global("r").t = "Bool"
           /\ global("r").v => (a.t = b.t /\ same_contents(a, b))
           /\ a.t # b.t => global("r") = Bool(FALSE)
           /\ global("s") = Bool(~global("r").v)

\* C27: an instance compared with itself: the comparison returns, and gives
\* true; the run neither aborts nor waits for the lock of the instance's
\* fields.
C27_SameInstanceIsEqual ==
    (/\ pc \in {"done", "panic", "blocked"}
     /\ script.family = "Equal"
     /\ script.p.left.on = "instance"
     /\ script.p.right = script.p.left) =>
        /\ pc = "done"
        /\ failure = None
        /\ global("r") = Bool(TRUE)
        /\ global("s") = Bool(FALSE)

\* C28: an assignment to a name that has no side-table entry and that the
\* globals do not define raises no error and evaluates to the value assigned
\* (the print of it prints the value), and defines nothing: the globals bind
\* what they bound before, no environment binds x, and the read of x after it
\* fails with the undefined variable x.
C28_AssignToUndefinedGlobal ==
    (pc = "done" /\ script.family = "Unbound" /\ ~script.p.defined) =>
        /\ heap.out = <<to_string(heap, script.p.value)>>
        /\ failure = Some(InterpreterError("UndefinedVariable", "x"))
        /\ idx = Len(script.statements)
        /\ DOMAIN heap.envs[heap.globals].values
             = {"clock"} \cup (IF script.p.place = "function" THEN {"f"} ELSE {})
        /\ \A e \in 1..Len(heap.envs) : "x" \notin DOMAIN heap.envs[e].values

\* x = "v" has run inside a call of f, with no x anywhere
C28_Witness ==
    /\ pc = "done"
    /\ script.family = "Unbound"
    /\ script.p = [place |-> "function", defined |-> FALSE, value |-> Str("v")]
    /\ heap.out = <<to_string(heap, Str("v"))>>
    /\ Len(heap.envs) = 2

\* C29: after a binary instruction on two numbers, of which L was pushed
\* first and R second, the stack holds one value, L op R (what binary_op!
\* taking the lower value as the left operand leaves), and that is what
\* Return prints.
C29_LeftOperandFirst ==
    (/\ Len(vm.chunk.constants) = 2
     /\ vm.ip >= 5) =>
        LET L == vm.chunk.constants[1]
            R == vm.chunk.constants[2]
            value == f64_op(vm.chunk.code[5], L, R)
        IN IF vm.result = None
           THEN vm.stack = <<value>>
           ELSE vm.stack = <<>> /\ vm.out = <<value>>

\* The resolvers a statement is resolved from: no scope or two scopes, at the
\* top level, in a function, in a method of a class and in the initializer
\* of a subclass.
ResolversBefore ==
    {[Resolver_new EXCEPT !.scopes = scopes,
                          !.current_function = context[1],
                          !.current_class = context[2]] :
        scopes \in {<<>>, begin_scope(begin_scope(Resolver_new)).scopes},
        context \in {<<"None", "None">>, <<"Function", "None">>, <<"Method", "Class">>,
                     <<"Initializer", "Subclass">>}}

\* rs is before, but for the names the statement declared in the innermost
\* scope: as many scopes, the ones under the innermost as they were, and the
\* two contexts as they were.
balanced(before, rs) ==
    /\ Len(rs.scopes) = Len(before.scopes)
    /\ \A i \in 1..(Len(rs.scopes) - 1) : rs.scopes[i] = before.scopes[i]
    /\ rs.current_function = before.current_function
    /\ rs.current_class = before.current_class

\* C30: a statement that resolves without a failure leaves as many scopes as
\* there were, the ones under the innermost untouched, and the current
\* function and the current class as they were (each top-level statement of
\* each script, resolved from each of ResolversBefore); after resolve of a
\* script that did not fail there is no scope and both contexts are None.
C30_ScopesBalanced ==
    (pc # "start" /\ pc # "resolve" /\ rpanic = "") =>
        /\ resolver.scopes = <<>>
        /\ resolver.current_function = "None"
        /\ resolver.current_class = "None"
        /\ (pc = "interpret" /\ idx = 1) =>
              \A s \in 1..Len(script.statements), before \in ResolversBefore :
                 \E rs \in {resolve_stmt(before, script.statements[s])} :
                    rs.panic = "" => balanced(before, rs)

\* a script with a subclass whose method uses super has been resolved, which
\* pushed and popped the scopes of super, of this and of the method
C30_Witness ==
    /\ pc = "interpret"
    /\ idx = 1
    /\ rpanic = ""
    /\ script.family = "Super"
    /\ resolver.scopes = <<>>
    /\ \E s \in 1..Len(script.statements) :
          /\ script.statements[s].k = "Class"
          /\ is_some(script.statements[s].superclass)
          /\ script.statements[s].methods # <<>>

====
